---- MODULE Spec2Model ----
(***************************************************************************)
(* Model of the sherlockbench client: the Investigation Loop               *)
(* (sherlockbench_anthropic/investigate.py), the Verification Loops        *)
(* (sherlockbench_{anthropic,google,openai}/verify.py) and the argument    *)
(* helpers list_to_map / normalize_args, the Run Orchestrator              *)
(* (sherlockbench_client/run_utils.py driving the per-attempt loop of      *)
(* sherlockbench_fireworks/main.py) and the Completion Dispatcher's        *)
(* minimum interval between calls.                                         *)
(*                                                                         *)
(* SpecInvestigate, SpecArgs, SpecVerify, SpecParse and SpecLimiter each   *)
(* exercise one component; SpecRun runs whole processes, restarts          *)
(* included, over a store that outlives them.                              *)
(*                                                                         *)
(* A Python dict is a sequence of <<key, value>> pairs in insertion order. *)
(* A one-character key chr(97 + i) is its code point 97 + i.               *)
(* A text is a sequence of tokens (a status: its characters; a model        *)
(* response: code-fence markers, line breaks, JSON values), so that         *)
(* substring tests, strip() and slicing can be computed.                    *)
(***************************************************************************)
EXTENDS Integers, Sequences, FiniteSets, TLC

VARIABLES
    mode,                   \* which entry point this behaviour exercises
    pc,                     \* position of the single thread of control
    provider,               \* whose verify() is running
    msg_limit,              \* config["msg-limit"]
    arg_spec,               \* the attempt's argument specification
    messages,               \* the transcript
    count,                  \* iterations of investigate's for loop completed
    tool_call_counter,      \* investigate's tool_call_counter
    tool_calls,             \* tool invocations of the turn being handled
    call_idx,               \* index of the invocation handled next
    tool_call_user_message, \* user message being filled with tool results
    completion,             \* content of the latest completion received
    returned,               \* <<>> or <<value returned by investigate>>
    exception,              \* "" or the name of the exception that escaped
    oracle_log,             \* requests sent to the oracle, in order
    llm_calls,              \* requests sent to completionfn, in order
    next_id,                \* next tool-invocation identifier the model will use
    input_dict,             \* argument of the latest normalize_args call
    args_norm,              \* result of the latest normalize_args call
    attempts,               \* verify's parse-retry counter
    thoughts,               \* verify's thoughts
    expected_output,        \* verify's expected_output
    vmessages,              \* verify's request for the current case
    vstatus,                \* latest verdict read by verify
    verification_result,    \* "None", or what verify returned: "True" / "False"
    cases,                  \* verification cases the oracle has handed out
    verdicts,               \* verdicts the oracle has given, in order
    attempt_id,             \* identifier of the attempt being processed
    oracle_replies,         \* replies to the test-function requests, in order
    argv,                   \* command line of the process: arg and --resume
    attempts_list,          \* run_with_error_handling's attempts
    attempt_idx,            \* position of run_benchmark's for loop
    current_attempt,        \* run_utils._current_attempt
    store,                  \* durable storage: run record, snapshot, outcomes
    exit_status,            \* "None" while the process runs, then how it ended
    processes,              \* processes started on this run so far
    now,                    \* wall clock
    rate_limit_seconds,     \* the dispatcher's configured interval
    last_call_time,         \* -1, or when the previous provider call ended
    total_call_count,       \* the dispatcher's call counter
    call_log,               \* provider calls: when asked for, started, ended
    start_api_calls         \* the counter as read when the attempt began

vars == <<mode, pc, provider, msg_limit, arg_spec, messages, count,
          tool_call_counter, tool_calls, call_idx, tool_call_user_message,
          completion, returned, exception, oracle_log, llm_calls, next_id,
          input_dict, args_norm, attempts, thoughts, expected_output,
          vmessages, vstatus, verification_result, cases, verdicts,
          attempt_id, oracle_replies, argv, attempts_list, attempt_idx,
          current_attempt, store, exit_status, processes, now,
          rate_limit_seconds, last_call_time, total_call_count, call_log,
          start_api_calls>>

\* the state of the Run Orchestrator
runVars == <<argv, attempts_list, attempt_idx, current_attempt, store,
             exit_status, processes>>

\* the state of the Completion Dispatcher
limiterVars == <<now, rate_limit_seconds, last_call_time, total_call_count,
                 call_log, start_api_calls>>

(***************************************************************************)
(* Bounds                                                                  *)
(***************************************************************************)
MaxArgs == 3        \* longest argument specification given to the helpers
MaxCallArgs == 2    \* longest argument specification of an investigated attempt
MaxMsgLimit == 2    \* largest msg-limit
MaxToolCalls == 2   \* most tool invocations the model makes in one attempt
MaxCases == 3       \* most verification cases the oracle hands out

Types == {"integer", "string", "boolean"}

AttemptId == "attempt-1"

(***************************************************************************)
(* Sequences helpers                                                       *)
(***************************************************************************)
SeqsUpTo(S, n) == UNION {[1..k -> S] : k \in 0..n}

Last(s) == s[Len(s)]

\* the dict holding the entries of d in the insertion order given by p
Reinsert(d, p) == [i \in 1..Len(d) |-> d[p[i]]]

\* every insertion order of the entries of d
InsertionOrders(d) == {Reinsert(d, p) : p \in Permutations(1..Len(d))}

(***************************************************************************)
(* investigate.py: list_to_map, normalize_args                             *)
(***************************************************************************)
\* the schema entry {"type": item}, written as its JSON text so that it can be
\* compared with a bare type name
type_property(item) == "{\"type\": \"" \o item \o "\"}"

\* keys that restart after the second one: 'a', 'b', 'a', ...
list_to_map_wrapping(input_list) ==
    [i \in 1..Len(input_list) |->
        <<97 + ((i - 1) % 2), type_property(input_list[i])>>]

\* keys chr(97 + i) for i in range(len(input_list)), zipped with {"type": item}
list_to_map(input_list) ==
    [i \in 1..Len(input_list) |-> <<97 + (i - 1), type_property(input_list[i])>>]

dict_keys(d) == {d[i][1] : i \in 1..Len(d)}

dict_get(d, key) == d[CHOOSE i \in 1..Len(d) : d[i][1] = key][2]

dict_values(d) == [i \in 1..Len(d) |-> d[i][2]]

RECURSIVE sorted(_)
sorted(S) ==
    IF S = {} THEN <<>>
    ELSE LET m == CHOOSE x \in S : \A y \in S : x <= y
         IN  <<m>> \o sorted(S \ {m})

\* list(input_dict.values()): the values in insertion order, keys not sorted
normalize_args_unsorted(input) == dict_values(input)

\* [input_dict[key] for key in sorted(input_dict.keys())]
normalize_args(input) ==
    LET keys == sorted(dict_keys(input))
    IN  [i \in 1..Len(keys) |-> dict_get(input, keys[i])]

(***************************************************************************)
(* Content blocks and messages                                             *)
(***************************************************************************)
Block(type, id, input, text) ==
    [type |-> type, id |-> id, input |-> input, text |-> text]

ThinkingBlock == Block("thinking", 0, <<>>, <<"reasoning">>)
RedactedThinkingBlock == Block("redacted_thinking", 0, <<>>, <<"opaque">>)
TextBlock(text) == Block("text", 0, <<>>, text)
ToolUseBlock(id, input) == Block("tool_use", id, input, <<"mystery_function">>)
OtherBlock == Block("server_tool_use", 0, <<>>, <<>>)

Message(role, content) == [role |-> role, content |-> content]

\* make_initial_messages(test_limit): the prompt the conversation starts from
InitialMessages == <<Message("user", <<TextBlock(<<"prompt">>)>>)>>

(***************************************************************************)
(* investigate.py: parse_completion                                        *)
(***************************************************************************)
\* next((item for item in content if isinstance(item, T)), None)
FirstOfType(content, type) ==
    LET at == {i \in 1..Len(content) : content[i].type = type}
    IN  IF at = {} THEN <<>>
        ELSE <<content[CHOOSE i \in at : \A j \in at : i <= j]>>

IsToolUse(item) == item.type = "tool_use"

\* a normalizer in which the last text block wins
parse_completion_last_text(content) ==
    [thinking          |-> FirstOfType(content, "thinking"),
     redacted_thinking |-> FirstOfType(content, "redacted_thinking"),
     text              |-> LET t == SelectSeq(content, LAMBDA b : b.type = "text")
                           IN  IF t = <<>> THEN <<>> ELSE <<Last(t).text>>,
     tool              |-> SelectSeq(content, IsToolUse)]

parse_completion(content) ==
    [thinking          |-> FirstOfType(content, "thinking"),
     redacted_thinking |-> FirstOfType(content, "redacted_thinking"),
     text              |-> LET t == FirstOfType(content, "text")
                           IN  IF t = <<>> THEN <<>> ELSE <<t[1].text>>,
     tool              |-> SelectSeq(content, IsToolUse)]

\* the thinking / redacted marker / text blocks composed for the assistant turn
content_blocks(parsed) ==
       (IF parsed.thinking # <<>>
        THEN <<Block("thinking", 0, <<>>, parsed.thinking[1].text)>> ELSE <<>>)
    \o (IF parsed.redacted_thinking # <<>>
        THEN <<Block("redacted_thinking", 0, <<>>, <<>>)>> ELSE <<>>)
    \o (IF parsed.text # <<>> THEN <<TextBlock(parsed.text[1])>> ELSE <<>>)

(***************************************************************************)
(* The model (LLM) and the oracle, as seen by investigate                  *)
(***************************************************************************)
\* the tool schema offered to the model: required = list(mapped_args.keys())
required(spec) == dict_keys(list_to_map(spec))

ArgValues == <<5, 3, 8, 1, 9, 2>>

\* a schema-conforming tool input: every required key once, in any insertion
\* order; the values tell invocations and positions apart
ToolInputs(spec, id) ==
    InsertionOrders([i \in 1..Len(spec) |-> <<97 + (i - 1), 10 * id + ArgValues[i]>>])

\* k tool invocations with fresh identifiers
ToolUses(spec, first_id, k) ==
    LET inputs == UNION {ToolInputs(spec, first_id + j - 1) : j \in 1..k}
    IN  {[j \in 1..k |-> ToolUseBlock(first_id + j - 1, inp[j])] :
            inp \in {f \in [1..k -> inputs] :
                        \A j \in 1..k : f[j] \in ToolInputs(spec, first_id + j - 1)}}

Prefaces ==
    {<<>>, <<TextBlock(<<"hello">>)>>,
     <<ThinkingBlock, RedactedThinkingBlock, TextBlock(<<"hello">>)>>}

\* reply of the oracle's test-function operation: with or without "output"
TestFunctionResponses == {[output |-> <<<<"7">>>>], [output |-> <<>>]}

\* what the model and the oracle answer an investigation with: every kind of
\* answer when the loop is exercised on its own, one kind of each under the
\* Run Orchestrator, whose attempts differ by how their loops end
PrefacesOffered == IF mode = "run" THEN {<<>>} ELSE Prefaces

ResponsesOffered ==
    IF mode = "run" THEN {[output |-> <<<<"7">>>>]} ELSE TestFunctionResponses

\* json.dumps of a string
json_dumps(s) == <<"\"">> \o s \o <<"\"">>

OracleRequest(op, args, prediction) ==
    [op |-> op, attempt_id |-> attempt_id, args |-> args, prediction |-> prediction]

\* a completionfn call: the messages sent and the content received
LLMCall(msgs, content) == [messages |-> msgs, content |-> content]

\* no orchestrator is running: the entry point is called on its own
RunIdle ==
    /\ argv = [arg |-> "", resume |-> "None"]
    /\ attempts_list = <<>>
    /\ attempt_idx = 0
    /\ current_attempt = <<>>
    /\ store = [run |-> FALSE, failure_info |-> <<>>, completed |-> <<>>,
                result |-> FALSE]
    /\ exit_status = "None"
    /\ processes = 0

\* completionfn is called directly, not through the dispatcher
LimiterIdle ==
    /\ now = 0
    /\ rate_limit_seconds = 0
    /\ last_call_time = -1
    /\ total_call_count = 0
    /\ call_log = <<>>
    /\ start_api_calls = 0

(***************************************************************************)
(* investigate.py: handle_tool_call, investigate                           *)
(***************************************************************************)
\* a tool result that does not carry the invocation's identifier
ToolResultUncorrelated(call_id, fnoutput) ==
    Block("tool_result", 0, <<>>, json_dumps(fnoutput))

\* every result of a turn carries the identifier of the turn's first invocation
ToolResultOfFirstCall(call_id, fnoutput) ==
    Block("tool_result", tool_calls[1].id, <<>>, json_dumps(fnoutput))

\* {"type": "tool_result", "tool_use_id": call_id, "content": json.dumps(fnoutput)}
ToolResult(call_id, fnoutput) ==
    Block("tool_result", call_id, <<>>, json_dumps(fnoutput))

\* response.get("output", "") : an empty result instead of the sentinel
get_output_empty_default(response) ==
    IF response.output # <<>> THEN response.output[1] ELSE <<>>

\* response.get("output", "Error calling tool")
get_output(response) ==
    IF response.output # <<>> THEN response.output[1] ELSE <<"Error calling tool">>

\* range(0, msg_limit) that runs one iteration too many
LoopHasNextInclusive(c, limit) == c <= limit

\* for count in range(0, msg_limit): is there another iteration
LoopHasNext(c, limit) == c < limit

\* a test that treats every turn as a tool turn
HasToolCallsAlways(calls) == TRUE

\* if tool_calls:
HasToolCalls(calls) == calls # <<>>

InvestigateInit ==
    /\ mode = "investigate"
    /\ pc = "investigate"
    /\ provider = "anthropic"
    /\ msg_limit \in 0..MaxMsgLimit
    /\ arg_spec \in {[i \in 1..n |-> "integer"] : n \in 0..MaxCallArgs}
    /\ messages = InitialMessages
    /\ count = 0
    /\ tool_call_counter = 0
    /\ tool_calls = <<>>
    /\ call_idx = 0
    /\ tool_call_user_message = Message("user", <<>>)
    /\ completion = <<>>
    /\ returned = <<>>
    /\ exception = ""
    /\ oracle_log = <<>>
    /\ llm_calls = <<>>
    /\ next_id = 1
    /\ input_dict = <<>>
    /\ args_norm = <<>>
    /\ attempts = 0
    /\ thoughts = <<>>
    /\ expected_output = <<>>
    /\ vmessages = <<>>
    /\ vstatus = <<>>
    /\ verification_result = "None"
    /\ cases = 0
    /\ verdicts = <<>>
    /\ attempt_id = AttemptId
    /\ oracle_replies = <<>>
    /\ RunIdle
    /\ LimiterIdle

\* one iteration of the for loop up to the first oracle call or the return:
\* completionfn, parse_completion, the assistant message
InvestigateTurn ==
    /\ pc = "investigate"
    /\ LoopHasNext(count, msg_limit)
    /\ \E k \in 0..(MaxToolCalls - tool_call_counter), pre \in PrefacesOffered :
       \E uses \in ToolUses(arg_spec, next_id, k) :
         LET content == pre \o uses
             parsed  == parse_completion(content)
         IN  /\ completion' = content
             /\ llm_calls' = Append(llm_calls, LLMCall(messages, content))
             /\ next_id' = next_id + k
             /\ IF HasToolCalls(parsed.tool)
                THEN LET with_call == Append(messages,
                             Message("assistant", content_blocks(parsed) \o parsed.tool))
                     IN  /\ tool_calls' = parsed.tool
                         /\ returned' = returned
                         /\ IF parsed.tool = <<>>
                            THEN \* the for loop over no calls: the empty user message
                                 /\ messages' = Append(with_call, Message("user", <<>>))
                                 /\ tool_call_user_message' = Message("user", <<>>)
                                 /\ call_idx' = 0
                                 /\ count' = count + 1
                                 /\ pc' = "investigate"
                            ELSE /\ messages' = with_call
                                 /\ tool_call_user_message' = Message("user", <<>>)
                                 /\ call_idx' = 1
                                 /\ count' = count
                                 /\ pc' = "tool_calls"
                ELSE /\ messages' = Append(messages,
                             Message("assistant", content_blocks(parsed)))
                     /\ returned' = <<[messages |-> messages',
                                      tool_call_count |-> tool_call_counter]>>
                     /\ pc' = "investigated"
                     /\ UNCHANGED <<tool_calls, tool_call_user_message, call_idx, count>>
    /\ UNCHANGED <<mode, provider, msg_limit, arg_spec, tool_call_counter, exception,
                   oracle_log, input_dict, args_norm, attempts, thoughts,
                   expected_output, vmessages, vstatus,
                   verification_result, cases, verdicts>>
    /\ UNCHANGED <<attempt_id, oracle_replies, runVars, limiterVars>>

\* handle_tool_call for the next invocation of the turn; after the last one the
\* user message is appended and the for loop moves on
HandleToolCall ==
    /\ pc = "tool_calls"
    /\ \E response \in ResponsesOffered :
         LET call     == tool_calls[call_idx]
             sent     == normalize_args(call.input)
             fnoutput == get_output(response)
             filled   == Message("user",
                            Append(tool_call_user_message.content,
                                   ToolResult(call.id, fnoutput)))
         IN  /\ oracle_log' = Append(oracle_log, OracleRequest("test-function", sent, <<>>))
             /\ oracle_replies' = Append(oracle_replies, response)
             /\ tool_call_user_message' = filled
             /\ tool_call_counter' = tool_call_counter + 1
             /\ IF call_idx = Len(tool_calls)
                THEN /\ messages' = Append(messages, filled)
                     /\ count' = count + 1
                     /\ call_idx' = 0
                     /\ pc' = "investigate"
                ELSE /\ call_idx' = call_idx + 1
                     /\ UNCHANGED <<messages, count, pc>>
    /\ UNCHANGED <<mode, provider, msg_limit, arg_spec, tool_calls, completion,
                   returned, exception, llm_calls, next_id, input_dict, args_norm,
                   attempts, thoughts, expected_output, vmessages, vstatus,
                   verification_result, cases, verdicts>>
    /\ UNCHANGED <<attempt_id, runVars, limiterVars>>

\* an exhausted for loop that returns the transcript instead of raising
ReturnOnMsgLimit ==
    /\ pc = "investigate"
    /\ ~LoopHasNext(count, msg_limit)
    /\ returned' = <<[messages |-> messages, tool_call_count |-> tool_call_counter]>>
    /\ pc' = "investigated"
    /\ UNCHANGED <<mode, provider, msg_limit, arg_spec, messages, count,
                   tool_call_counter, tool_calls, call_idx, tool_call_user_message,
                   completion, exception, oracle_log, llm_calls, next_id, input_dict,
                   args_norm, attempts, thoughts, expected_output, vmessages, vstatus,
                   verification_result, cases, verdicts>>
    /\ UNCHANGED <<attempt_id, oracle_replies, runVars, limiterVars>>

\* the for loop is exhausted: raise MsgLimitException("LLM ran out of messages.")
RaiseMsgLimit ==
    /\ pc = "investigate"
    /\ ~LoopHasNext(count, msg_limit)
    /\ exception' = "MsgLimitException"
    /\ pc' = "raised"
    /\ UNCHANGED <<mode, provider, msg_limit, arg_spec, messages, count,
                   tool_call_counter, tool_calls, call_idx, tool_call_user_message,
                   completion, returned, oracle_log, llm_calls, next_id, input_dict,
                   args_norm, attempts, thoughts, expected_output, vmessages, vstatus,
                   verification_result, cases, verdicts>>
    /\ UNCHANGED <<attempt_id, oracle_replies, runVars, limiterVars>>

InvestigateNext ==
    \/ InvestigateTurn
    \/ HandleToolCall
    \/ RaiseMsgLimit

SpecInvestigate == InvestigateInit /\ [][InvestigateNext]_vars

(***************************************************************************)
(* Properties of the Investigation Loop                                    *)
(***************************************************************************)
RECURSIVE AllToolUses(_)
\* the tool invocations of the transcript, in transcript order
AllToolUses(msgs) ==
    IF msgs = <<>> THEN <<>>
    ELSE AllToolUses(SubSeq(msgs, 1, Len(msgs) - 1))
         \o (IF Last(msgs).role = "assistant"
             THEN SelectSeq(Last(msgs).content, IsToolUse) ELSE <<>>)

\* the latest model turn carried no tool invocation
NoToolTurn ==
    /\ mode = "investigate"
    /\ llm_calls # <<>>
    /\ \A i \in 1..Len(completion) : completion[i].type # "tool_use"

\* investigate has returned the transcript, which ends with the latest turn
ReturnedLatestTurn ==
    /\ pc = "investigated"
    /\ exception = ""
    /\ returned = <<[messages |-> messages, tool_call_count |-> tool_call_counter]>>
    /\ Last(messages).role = "assistant"
    /\ Last(messages).content = content_blocks(parse_completion(completion))

\* C1: the loop returns on the first model turn without tool invocations: once
\* such a turn has been received investigate has returned the transcript ending
\* with that turn's assistant message, and no completion call and no oracle
\* call follows it.
C1_ReturnsOnFirstNoToolTurn ==
    [][ /\ NoToolTurn' => ReturnedLatestTurn'
        /\ NoToolTurn => /\ llm_calls' = llm_calls
                         /\ oracle_log' = oracle_log ]_vars

\* a return that follows at least one turn with tool invocations
C1_Witness ==
    /\ mode = "investigate"
    /\ pc = "investigated"
    /\ count >= 1
    /\ tool_call_counter >= 1
    /\ returned # <<>>

\* what holds in every state about the message budget
MsgLimitState ==
    mode = "investigate" =>
        /\ Len(llm_calls) <= msg_limit
        /\ count <= msg_limit
        /\ (count = msg_limit /\ pc # "tool_calls") =>
               /\ Len(llm_calls) = msg_limit
               /\ returned = <<>>
               /\ pc \in {"investigate", "raised"}
        /\ exception = "MsgLimitException" =>
               /\ pc = "raised"
               /\ count = msg_limit
               /\ Len(llm_calls) = msg_limit
               /\ returned = <<>>

\* C2: investigate issues at most msg-limit completion calls; when every one
\* of the msg-limit turns carried a tool invocation, the next step raises the
\* message-limit failure, after exactly msg-limit turns, and nothing is
\* returned.
C2_MsgLimit ==
    /\ []MsgLimitState
    /\ [][ (mode = "investigate" /\ pc = "investigate" /\ count = msg_limit)
               => (exception' = "MsgLimitException" /\ returned' = <<>>
                   /\ llm_calls' = llm_calls) ]_vars

\* the failure was raised after msg-limit >= 1 turns that all invoked the tool
C2_Witness ==
    /\ mode = "investigate"
    /\ exception = "MsgLimitException"
    /\ msg_limit >= 2
    /\ Len(llm_calls) = msg_limit

\* the values of a tool input, whatever their keys and order
InputValues(input) == {input[i][2] : i \in 1..Len(input)}

SeqValues(s) == {s[i] : i \in 1..Len(s)}

\* a turn with tool invocations has just been handled completely
ToolTurnHandled ==
    /\ mode = "investigate"
    /\ pc \in {"investigate", "raised"}
    /\ count >= 1

\* C3: for a model turn carrying tool invocations T1..Tk (k >= 1) exactly k
\* oracle test-function calls are issued, the i-th for Ti, and one user message
\* with exactly k tool-result blocks is appended, the i-th carrying the
\* identifier of Ti.
C3_OneCallAndResultPerInvocation ==
    /\ mode = "investigate" =>
          Len(oracle_log) = Len(AllToolUses(messages))
                            - (IF pc = "tool_calls"
                               THEN Len(tool_calls) - call_idx + 1 ELSE 0)
    /\ ToolTurnHandled =>
          LET T       == SelectSeq(completion, IsToolUse)
              k       == Len(T)
              results == Last(messages).content
              before  == Len(oracle_log) - k
          IN  /\ k >= 1
              /\ Last(messages).role = "user"
              /\ messages[Len(messages) - 1].role = "assistant"
              /\ Len(results) = k
              /\ before >= 0
              /\ \A i \in 1..k :
                    /\ results[i].type = "tool_result"
                    /\ results[i].id = T[i].id
                    /\ oracle_log[before + i].op = "test-function"
                    /\ SeqValues(oracle_log[before + i].args) = InputValues(T[i].input)

\* a handled turn with two invocations
C3_Witness ==
    /\ ToolTurnHandled
    /\ Len(SelectSeq(completion, IsToolUse)) >= 2
    /\ Len(Last(messages).content) >= 2

\* the value the model supplied for the i-th declared argument
SuppliedFor(input, i) ==
    LET at == CHOOSE n \in 1..Len(input) : input[n][1] = 97 + (i - 1)
    IN  input[at][2]

\* C4: the positional argument vector sent with every test-function call holds
\* the invocation's values in the order of the alphabetically sorted keys,
\* which is the declared argument order, whatever order the model supplied the
\* keys in.
C4_ArgsInDeclaredOrder ==
    mode = "investigate" =>
        \A j \in 1..Len(oracle_log) :
            LET call == AllToolUses(messages)[j]
            IN  /\ Len(oracle_log[j].args) = Len(arg_spec)
                /\ \A i \in 1..Len(arg_spec) :
                      oracle_log[j].args[i] = SuppliedFor(call.input, i)

\* a call was sent for an invocation whose keys came as {"b": .., "a": ..}
C4_Witness ==
    /\ mode = "investigate"
    /\ oracle_log # <<>>
    /\ LET input == AllToolUses(messages)[1].input
       IN  /\ Len(input) = 2
           /\ input[1][1] = 98
           /\ input[2][1] = 97
           /\ oracle_log[1].args = <<input[2][2], input[1][2]>>

RECURSIVE AllToolResults(_)
\* the tool-result blocks of the transcript, in transcript order
AllToolResults(msgs) ==
    IF msgs = <<>> THEN <<>>
    ELSE AllToolResults(SubSeq(msgs, 1, Len(msgs) - 1))
         \o (IF Last(msgs).role = "user"
             THEN SelectSeq(Last(msgs).content, LAMBDA b : b.type = "tool_result")
             ELSE <<>>)

\* the tool results produced so far: those of the transcript and those of the
\* user message being filled
ToolResultsSoFar ==
    AllToolResults(messages)
    \o (IF pc = "tool_calls" THEN tool_call_user_message.content ELSE <<>>)

\* the i-th test-function reply came without the output field
LacksOutput(i) == oracle_replies[i].output = <<>>

\* C18: when the test-function reply lacks the output field, handle_tool_call
\* does not raise: the tool result of that invocation is the sentinel string
\* "Error calling tool", a tool-result block is appended for it all the same,
\* and the loop goes on with the next invocation or the next turn.
C18_MissingOutputIsSentinel ==
    /\ [](mode = "investigate" =>
            /\ Len(ToolResultsSoFar) = Len(oracle_replies)
            /\ \A i \in 1..Len(oracle_replies) :
                   LacksOutput(i) =>
                      ToolResultsSoFar[i].text = json_dumps(<<"Error calling tool">>))
    /\ [][ (mode = "investigate" /\ Len(oracle_replies') > Len(oracle_replies)
             /\ Last(oracle_replies').output = <<>>)
               => /\ exception' = ""
                  /\ pc' = (IF call_idx = Len(tool_calls)
                            THEN "investigate" ELSE "tool_calls") ]_vars

\* a reply without output was followed by another invocation and another turn
C18_Witness ==
    /\ mode = "investigate"
    /\ Len(oracle_replies) >= 2
    /\ LacksOutput(1)
    /\ Len(llm_calls) >= 2
    /\ ToolResultsSoFar[1].text = json_dumps(<<"Error calling tool">>)

(***************************************************************************)
(* The helpers on their own: list_to_map, then normalize_args on the        *)
(* mapping in any key insertion order                                       *)
(***************************************************************************)
ArgsInit ==
    /\ mode = "args"
    /\ pc = "mapped"
    /\ provider = "anthropic"
    /\ msg_limit = 0
    /\ arg_spec \in SeqsUpTo(Types, MaxArgs)
    /\ input_dict \in InsertionOrders(list_to_map(arg_spec))
    /\ args_norm = <<>>
    /\ messages = <<>>
    /\ count = 0
    /\ tool_call_counter = 0
    /\ tool_calls = <<>>
    /\ call_idx = 0
    /\ tool_call_user_message = Message("user", <<>>)
    /\ completion = <<>>
    /\ returned = <<>>
    /\ exception = ""
    /\ oracle_log = <<>>
    /\ llm_calls = <<>>
    /\ next_id = 1
    /\ attempts = 0
    /\ thoughts = <<>>
    /\ expected_output = <<>>
    /\ vmessages = <<>>
    /\ vstatus = <<>>
    /\ verification_result = "None"
    /\ cases = 0
    /\ verdicts = <<>>
    /\ attempt_id = AttemptId
    /\ oracle_replies = <<>>
    /\ RunIdle
    /\ LimiterIdle

NormalizeArgs ==
    /\ mode = "args"
    /\ pc = "mapped"
    /\ args_norm' = normalize_args(input_dict)
    /\ pc' = "normalized"
    /\ UNCHANGED <<mode, provider, msg_limit, arg_spec, messages, count,
                   tool_call_counter, tool_calls, call_idx, tool_call_user_message,
                   completion, returned, exception, oracle_log, llm_calls, next_id,
                   input_dict, attempts, thoughts, expected_output, vmessages, vstatus,
                   verification_result, cases, verdicts>>
    /\ UNCHANGED <<attempt_id, oracle_replies, runVars, limiterVars>>

ArgsNext == NormalizeArgs

SpecArgs == ArgsInit /\ [][ArgsNext]_vars

\* C5 as stated: normalize_args(list_to_map(args)) is args itself.
C5_RoundTripsToArgs ==
    (mode = "args" /\ pc = "normalized") => args_norm = arg_spec

\* C5, amended: list_to_map assigns exactly n distinct keys, the i-th being
\* chr(97 + i - 1), and normalize_args of the mapping in any key insertion order
\* yields the schema entries {"type": args[i]} in declared order.
C5_KeysAndDeclaredOrder ==
    mode = "args" =>
        /\ Len(input_dict) = Len(arg_spec)
        /\ Cardinality({input_dict[i][1] : i \in 1..Len(input_dict)}) = Len(arg_spec)
        /\ \A i \in 1..Len(arg_spec) :
              /\ list_to_map(arg_spec)[i][1] = 96 + i
              /\ \E n \in 1..Len(input_dict) :
                    input_dict[n] = <<96 + i, "{\"type\": \"" \o arg_spec[i] \o "\"}">>
        /\ pc = "normalized" =>
              /\ Len(args_norm) = Len(arg_spec)
              /\ \A i \in 1..Len(arg_spec) :
                    args_norm[i] = "{\"type\": \"" \o arg_spec[i] \o "\"}"

\* a three-argument mapping whose keys were inserted as c, .., a was normalized
C5_Witness ==
    /\ mode = "args"
    /\ pc = "normalized"
    /\ Len(arg_spec) = 3
    /\ arg_spec[1] # arg_spec[3]
    /\ input_dict[1][1] = 99
    /\ input_dict[3][1] = 97

(***************************************************************************)
(* verify.py (anthropic, google, openai)                                   *)
(***************************************************************************)
Providers == {"anthropic", "google", "openai"}

WRONG == <<"w", "r", "o", "n", "g">>
DONE == <<"d", "o", "n", "e">>
CORRECT == <<"c", "o", "r", "r", "e", "c", "t">>

\* verdicts the oracle may answer with: the three known ones, an unrecognized
\* word and the empty string
Statuses == {WRONG, DONE, CORRECT, <<"e", "r", "r", "o", "r">>, <<>>}

\* the Python test  a in b  for two strings: a is a substring of b
str_in(a, b) ==
    \E i \in 0..(Len(b) - Len(a)) : SubSeq(b, i + 1, i + Len(a)) = a

\* a comparison with a misspelt literal
IsWrongMisspelt(status) == str_in(status, <<"W", "r", "o", "n", "g">>)

\* vstatus in ("wrong"): the parentheses do not make a tuple
IsWrong(status) == str_in(status, WRONG)

\* a comparison with a misspelt literal
IsDoneMisspelt(status) == str_in(status, <<"D", "o", "n", "e">>)

\* vstatus in ("done")
IsDone(status) == str_in(status, DONE)

\* while attempts < 3 that allows one more round
CanRetryInclusive(n) == n <= 3

\* while attempts < 3
CanRetry(n) == n < 3

\* the three backquotes followed by json, and the three backquotes
FENCE_JSON == "[fence]json"
FENCE == "[fence]"
NEWLINE == "\n"
OBJECT == "{\"thoughts\": \"t\", \"expected_output\": \"42\"}"

RECURSIVE lstrip(_)
lstrip(text) ==
    IF text # <<>> /\ Head(text) = NEWLINE THEN lstrip(Tail(text)) ELSE text

RECURSIVE rstrip(_)
rstrip(text) ==
    IF text # <<>> /\ Last(text) = NEWLINE
    THEN rstrip(SubSeq(text, 1, Len(text) - 1)) ELSE text

\* str.strip()
strip(text) == rstrip(lstrip(text))

\* the two statements  if cleaned_response and cleaned_response.strip()...
strip_code_fence(response) ==
    LET opened == IF response # <<>> /\ strip(response) # <<>>
                     /\ Head(strip(response)) = FENCE_JSON
                  THEN strip(Tail(strip(response))) ELSE response
    IN  IF opened # <<>> /\ strip(opened) # <<>> /\ Last(strip(opened)) = FENCE
        THEN strip(SubSeq(strip(opened), 1, Len(strip(opened)) - 1)) ELSE opened

\* json.loads followed by destructure(.., "thoughts", "expected_output"):
\* ok is FALSE when json.loads raises JSONDecodeError
json_loads(text) ==
    IF strip(text) = <<OBJECT>>
    THEN [ok |-> TRUE, thoughts |-> <<"t">>, expected_output |-> <<"42">>]
    ELSE [ok |-> FALSE, thoughts |-> <<>>, expected_output |-> <<>>]

\* texts the model may answer a verification request with
VerifyTexts ==
    {<<OBJECT>>,
     <<FENCE_JSON, NEWLINE, OBJECT, NEWLINE, FENCE>>,
     <<"junk">>}

\* completions of a verification request: one text block, or no text block
VerifyCompletions == {<<TextBlock(t)>> : t \in VerifyTexts} \cup {<<ThinkingBlock>>}

\* what the model and the oracle answer a verification with: under the Run
\* Orchestrator a parseable text or no text block, and the three verdicts
CompletionsOffered ==
    IF mode = "run" THEN {<<TextBlock(<<OBJECT>>)>>, <<ThinkingBlock>>}
    ELSE VerifyCompletions

StatusesOffered == IF mode = "run" THEN {WRONG, DONE, CORRECT} ELSE Statuses

\* make_verification_message(..) for the n-th case handed out
VerificationMessage(n) == Message("user", <<Block("text", n, <<>>, <<"verification">>)>>)

\* a request that grows with every case: it is built on the previous request
make_vmessages_accumulating(msgs, n) ==
    (IF vmessages = <<>> THEN msgs ELSE vmessages) \o <<VerificationMessage(n)>>

\* vmessages for the n-th case: anthropic sends the last message of the
\* transcript, google and openai the whole transcript, before the case's
\* verification message
make_vmessages(msgs, n) ==
    IF provider = "anthropic"
    THEN <<Last(msgs)>> \o <<VerificationMessage(n)>>
    ELSE msgs \o <<VerificationMessage(n)>>

\* transcripts investigate returns
FinalTranscripts ==
    {InitialMessages \o <<Message("assistant", <<>>)>>,
     InitialMessages \o <<Message("assistant", <<TextBlock(<<"hello">>)>>)>>}

VerifyInit ==
    /\ mode = "verify"
    /\ pc = "verify"
    /\ provider \in Providers
    /\ msg_limit = 1
    /\ arg_spec = <<>>
    /\ messages \in FinalTranscripts
    /\ count = 0
    /\ tool_call_counter = 0
    /\ tool_calls = <<>>
    /\ call_idx = 0
    /\ tool_call_user_message = Message("user", <<>>)
    /\ completion = <<>>
    /\ returned = <<[messages |-> messages, tool_call_count |-> 0]>>
    /\ exception = ""
    /\ oracle_log = <<>>
    /\ llm_calls = <<>>
    /\ next_id = 1
    /\ input_dict = <<>>
    /\ args_norm = <<>>
    /\ attempts = 0
    /\ thoughts = <<>>
    /\ expected_output = <<>>
    /\ vmessages = <<>>
    /\ vstatus = <<>>
    /\ verification_result = "None"
    /\ cases = 0
    /\ verdicts = <<>>
    /\ attempt_id = AttemptId
    /\ oracle_replies = <<>>
    /\ RunIdle
    /\ LimiterIdle

\* while (v_data := postfn("next-verification", ..)): falsy ends the loop and
\* verify returns True; otherwise the request for the case is built
NextVerification ==
    /\ mode \in {"verify", "run"}
    /\ pc = "verify"
    /\ oracle_log' = Append(oracle_log, OracleRequest("next-verification", <<>>, <<>>))
    /\ \/ /\ verification_result' = "True"
          /\ pc' = "verified"
          /\ UNCHANGED <<cases, vmessages, attempts, thoughts, expected_output>>
       \/ /\ cases < MaxCases
          /\ cases' = cases + 1
          /\ vmessages' = make_vmessages(messages, cases + 1)
          /\ attempts' = IF provider = "anthropic" THEN 0 ELSE attempts
          /\ thoughts' = IF provider = "anthropic" THEN <<>> ELSE thoughts
          /\ expected_output' = IF provider = "anthropic" THEN <<>> ELSE expected_output
          /\ pc' = "completion"
          /\ UNCHANGED verification_result
    /\ UNCHANGED <<mode, provider, msg_limit, arg_spec, messages, count,
                   tool_call_counter, tool_calls, call_idx, tool_call_user_message,
                   completion, returned, exception, llm_calls, next_id, input_dict,
                   args_norm, vstatus, verdicts>>
    /\ UNCHANGED <<attempt_id, oracle_replies, runVars, limiterVars>>

\* anthropic: one round of  while attempts < 3:  completionfn, the first text
\* block, the code fence, json.loads
AnthropicCompletion ==
    /\ mode \in {"verify", "run"}
    /\ pc = "completion"
    /\ provider = "anthropic"
    /\ \E content \in CompletionsOffered :
         LET text == FirstOfType(content, "text")
         IN  /\ completion' = content
             /\ llm_calls' = Append(llm_calls, LLMCall(vmessages, content))
             /\ IF text = <<>>
                THEN \* json.loads(None) raises TypeError, which is not caught
                     /\ exception' = "TypeError"
                     /\ pc' = "raised"
                     /\ UNCHANGED <<attempts, thoughts, expected_output>>
                ELSE LET parsed == json_loads(strip_code_fence(text[1].text))
                     IN  IF parsed.ok
                         THEN /\ thoughts' = parsed.thoughts
                              /\ expected_output' = parsed.expected_output
                              /\ pc' = "submit"
                              /\ UNCHANGED <<attempts, exception>>
                         ELSE /\ attempts' = attempts + 1
                              /\ pc' = IF CanRetry(attempts + 1)
                                       THEN "completion" ELSE "submit"
                              /\ UNCHANGED <<thoughts, expected_output, exception>>
    /\ UNCHANGED <<mode, provider, msg_limit, arg_spec, messages, count,
                   tool_call_counter, tool_calls, call_idx, tool_call_user_message,
                   returned, oracle_log, next_id, input_dict, args_norm, vmessages,
                   vstatus, verification_result, cases, verdicts>>
    /\ UNCHANGED <<attempt_id, oracle_replies, runVars, limiterVars>>

\* google: completionfn with a schema; completion.parsed holds the fields
GoogleCompletion ==
    /\ mode \in {"verify", "run"}
    /\ pc = "completion"
    /\ provider = "google"
    /\ LET content == <<TextBlock(<<OBJECT>>)>>
           parsed  == json_loads(<<OBJECT>>)
       IN  /\ completion' = content
           /\ llm_calls' = Append(llm_calls, LLMCall(vmessages, content))
           /\ thoughts' = parsed.thoughts
           /\ expected_output' = parsed.expected_output
           /\ pc' = "submit"
    /\ UNCHANGED <<mode, provider, msg_limit, arg_spec, messages, count,
                   tool_call_counter, tool_calls, call_idx, tool_call_user_message,
                   returned, exception, oracle_log, next_id, input_dict, args_norm,
                   attempts, vmessages, vstatus, verification_result, cases, verdicts>>
    /\ UNCHANGED <<attempt_id, oracle_replies, runVars, limiterVars>>

\* openai: completionfn with a response format; LengthFinishReasonError breaks
\* out of the loop
OpenAICompletion ==
    /\ mode \in {"verify", "run"}
    /\ pc = "completion"
    /\ provider = "openai"
    /\ \/ LET content == <<TextBlock(<<OBJECT>>)>>
              parsed  == json_loads(<<OBJECT>>)
          IN  /\ completion' = content
              /\ llm_calls' = Append(llm_calls, LLMCall(vmessages, content))
              /\ thoughts' = parsed.thoughts
              /\ expected_output' = parsed.expected_output
              /\ pc' = "submit"
              /\ UNCHANGED verification_result
       \/ /\ completion' = <<>>
          /\ llm_calls' = Append(llm_calls, LLMCall(vmessages, <<>>))
          /\ verification_result' = "True"
          /\ pc' = "verified"
          /\ UNCHANGED <<thoughts, expected_output>>
    /\ UNCHANGED <<mode, provider, msg_limit, arg_spec, messages, count,
                   tool_call_counter, tool_calls, call_idx, tool_call_user_message,
                   returned, exception, oracle_log, next_id, input_dict, args_norm,
                   attempts, vmessages, vstatus, cases, verdicts>>
    /\ UNCHANGED <<attempt_id, oracle_replies, runVars, limiterVars>>

\* postfn("attempt-verification", ..)["status"] and the two tests on it
AttemptVerification ==
    /\ mode \in {"verify", "run"}
    /\ pc = "submit"
    /\ oracle_log' = Append(oracle_log,
                            OracleRequest("attempt-verification", <<>>, expected_output))
    /\ \E status \in StatusesOffered :
         /\ vstatus' = status
         /\ verdicts' = Append(verdicts, status)
         /\ IF IsWrong(status)
            THEN /\ verification_result' = "False"
                 /\ pc' = "verified"
            ELSE IF IsDone(status)
            THEN /\ verification_result' = "True"
                 /\ pc' = "verified"
            ELSE /\ pc' = "verify"
                 /\ UNCHANGED verification_result
    /\ UNCHANGED <<mode, provider, msg_limit, arg_spec, messages, count,
                   tool_call_counter, tool_calls, call_idx, tool_call_user_message,
                   completion, returned, exception, llm_calls, next_id, input_dict,
                   args_norm, attempts, thoughts, expected_output, vmessages, cases>>
    /\ UNCHANGED <<attempt_id, oracle_replies, runVars, limiterVars>>

VerifyNext ==
    \/ NextVerification
    \/ AnthropicCompletion
    \/ GoogleCompletion
    \/ OpenAICompletion
    \/ AttemptVerification

SpecVerify == VerifyInit /\ [][VerifyNext]_vars

(***************************************************************************)
(* Properties of the Verification Loop                                     *)
(***************************************************************************)
\* how many requests for the operation op the oracle has received
Requests(op) == Cardinality({i \in 1..Len(oracle_log) : oracle_log[i].op = op})

\* the oracle has just answered, or answered last, the latest prediction
VerdictIsLatest ==
    /\ verdicts # <<>>
    /\ Last(oracle_log).op = "attempt-verification"
    /\ Requests("attempt-verification") = Len(verdicts)

\* C6: as soon as the oracle answers a prediction with the verdict wrong,
\* verify returns False; no next-verification request, completion call or
\* attempt-verification submission follows.
C6_WrongReturnsFalse ==
    /\ [](  (mode = "verify" /\ verdicts # <<>> /\ Last(verdicts) = WRONG)
         => (/\ pc = "verified"
             /\ verification_result = "False"
             /\ VerdictIsLatest))
    /\ [][ (mode = "verify" /\ verdicts # <<>> /\ Last(verdicts) = WRONG)
           => (oracle_log' = oracle_log /\ llm_calls' = llm_calls) ]_vars

\* wrong was the answer to the second prediction
C6_Witness ==
    /\ mode = "verify"
    /\ Len(verdicts) = 2
    /\ verdicts[1] = CORRECT
    /\ verdicts[2] = WRONG
    /\ verification_result = "False"

\* the verdicts so far are k-1 times correct, then done
CorrectThenDone ==
    /\ verdicts # <<>>
    /\ Last(verdicts) = DONE
    /\ \A i \in 1..(Len(verdicts) - 1) : verdicts[i] = CORRECT

\* C7: after the verdicts correct (k-1 times) and then done, verify returns
\* True, having submitted exactly k predictions, and requests no further
\* verification case.
C7_DoneReturnsTrue ==
    /\ [](  (mode = "verify" /\ CorrectThenDone)
         => (/\ pc = "verified"
             /\ verification_result = "True"
             /\ VerdictIsLatest
             /\ Requests("next-verification") = Len(verdicts)))
    /\ [][ (mode = "verify" /\ CorrectThenDone)
           => (oracle_log' = oracle_log /\ llm_calls' = llm_calls) ]_vars

\* the verdicts were correct, correct, done
C7_Witness ==
    /\ mode = "verify"
    /\ verdicts = <<CORRECT, CORRECT, DONE>>
    /\ verification_result = "True"
    /\ Requests("attempt-verification") = 3

\* C8: a verdict other than wrong and done makes the loop go on to the next
\* verification case: verify neither returns nor stops.
C8_OtherVerdictsContinue ==
    (/\ mode = "verify"
     /\ VerdictIsLatest
     /\ Last(verdicts) \notin {WRONG, DONE})
    => (pc = "verify" /\ verification_result = "None")

\* C9: in the anthropic loop no model response makes an exception escape
\* verify; when the retries of a case are used up the empty prediction is
\* submitted.
C9_UnparseableNeverRaises ==
    (mode = "verify" /\ provider = "anthropic") =>
        /\ exception = ""
        /\ pc # "raised"
        /\ (pc = "submit" /\ attempts = 3) => expected_output = <<>>

\* the completion calls made for the n-th verification case
CallsFor(n) ==
    {i \in 1..Len(llm_calls) : Last(llm_calls[i].messages) = VerificationMessage(n)}

\* the response holds a text that json.loads rejects
ParseFailure(content) ==
    /\ FirstOfType(content, "text") # <<>>
    /\ ~json_loads(strip_code_fence(FirstOfType(content, "text")[1].text)).ok

\* C10: for one verification case the model is asked at most 3 times; every
\* call but the last one of a case got a response that failed to parse, so a
\* call is repeated only after a parse failure and the first parseable
\* response ends the retries.
C10_AtMostThreeCompletions ==
    mode = "verify" =>
        \A n \in 1..cases :
            /\ Cardinality(CallsFor(n)) <= 3
            /\ \A i \in CallsFor(n), j \in CallsFor(n) :
                  i < j => ParseFailure(llm_calls[i].content)
            /\ (provider = "anthropic" /\ n = cases /\ pc = "completion")
                   => Cardinality(CallsFor(n)) = attempts

\* two parse failures, then a parseable response: three calls for the case
C10_Witness ==
    /\ mode = "verify"
    /\ provider = "anthropic"
    /\ pc = "submit"
    /\ Cardinality(CallsFor(cases)) = 3
    /\ attempts = 2
    /\ expected_output = <<"42">>

(***************************************************************************)
(* anthropic verify.py, lines 29-45 on their own: one response is cleaned   *)
(* of its code-fence markers and parsed                                     *)
(***************************************************************************)
MaxBlank == 1       \* longest run of line breaks around a part of a response

Blanks == {[i \in 1..n |-> NEWLINE] : n \in 0..MaxBlank}

\* responses of the model: a content, bare or between an opening and a closing
\* marker, with line breaks around every part
Responses ==
    {lead \o open \o mid \o <<content>> \o back \o close \o trail :
        lead \in Blanks, mid \in Blanks, back \in Blanks, trail \in Blanks,
        open \in {<<>>, <<FENCE_JSON>>, <<FENCE>>},
        close \in {<<>>, <<FENCE>>},
        content \in {OBJECT, "junk"}}

ParseInit ==
    /\ mode = "parse"
    /\ pc = "response"
    /\ provider = "anthropic"
    /\ msg_limit = 1
    /\ arg_spec = <<>>
    /\ messages = <<>>
    /\ count = 0
    /\ tool_call_counter = 0
    /\ tool_calls = <<>>
    /\ call_idx = 0
    /\ tool_call_user_message = Message("user", <<>>)
    /\ completion \in {<<TextBlock(t)>> : t \in Responses}
    /\ returned = <<>>
    /\ exception = ""
    /\ oracle_log = <<>>
    /\ llm_calls = <<>>
    /\ next_id = 1
    /\ input_dict = <<>>
    /\ args_norm = <<>>
    /\ attempts = 0
    /\ thoughts = <<>>
    /\ expected_output = <<>>
    /\ vmessages = <<>>
    /\ vstatus = <<>>
    /\ verification_result = "None"
    /\ cases = 0
    /\ verdicts = <<>>
    /\ attempt_id = AttemptId
    /\ oracle_replies = <<>>
    /\ RunIdle
    /\ LimiterIdle

\* lines 29-45 for the response received: the text is cleaned and parsed; a
\* JSONDecodeError counts one failed try
ParseResponse ==
    /\ mode = "parse"
    /\ pc = "response"
    /\ LET text   == FirstOfType(completion, "text")
           parsed == json_loads(strip_code_fence(text[1].text))
       IN  IF parsed.ok
           THEN /\ thoughts' = parsed.thoughts
                /\ expected_output' = parsed.expected_output
                /\ pc' = "parsed"
                /\ UNCHANGED attempts
           ELSE /\ attempts' = attempts + 1
                /\ pc' = "parse_failed"
                /\ UNCHANGED <<thoughts, expected_output>>
    /\ UNCHANGED <<mode, provider, msg_limit, arg_spec, messages, count,
                   tool_call_counter, tool_calls, call_idx, tool_call_user_message,
                   completion, returned, exception, oracle_log, llm_calls, next_id,
                   input_dict, args_norm, vmessages, vstatus, verification_result,
                   cases, verdicts>>
    /\ UNCHANGED <<attempt_id, oracle_replies, runVars, limiterVars>>

ParseNext == ParseResponse

SpecParse == ParseInit /\ [][ParseNext]_vars

\* the response text held by the completion
ResponseText == FirstOfType(completion, "text")[1].text

\* the text stands between a leading and a trailing code-fence marker
IsFenced(text) ==
    /\ Len(strip(text)) >= 2
    /\ Head(strip(text)) \in {FENCE_JSON, FENCE}
    /\ Last(strip(text)) = FENCE

\* what stands between the two markers
Unwrapped(text) == SubSeq(strip(text), 2, Len(strip(text)) - 1)

\* C19: a response wrapped in a fenced code block parses to the same thoughts
\* and expected_output as its content unwrapped, for every well-formed
\* content.
C19_FencedParsesAsUnwrapped ==
    (/\ mode = "parse"
     /\ pc # "response"
     /\ IsFenced(ResponseText)
     /\ json_loads(Unwrapped(ResponseText)).ok)
        => /\ pc = "parsed"
           /\ thoughts = json_loads(Unwrapped(ResponseText)).thoughts
           /\ expected_output = json_loads(Unwrapped(ResponseText)).expected_output

\* what the code does do: a block opened by the marker that names json parses
\* as its content
C19_JsonFenceParsesAsUnwrapped ==
    (/\ mode = "parse"
     /\ pc # "response"
     /\ IsFenced(ResponseText)
     /\ Head(strip(ResponseText)) = FENCE_JSON
     /\ json_loads(Unwrapped(ResponseText)).ok)
        => /\ pc = "parsed"
           /\ thoughts = json_loads(Unwrapped(ResponseText)).thoughts
           /\ expected_output = json_loads(Unwrapped(ResponseText)).expected_output

\* a well-formed content in a block opened by the bare marker failed to parse
C19_Witness ==
    /\ mode = "parse"
    /\ pc = "parse_failed"
    /\ IsFenced(ResponseText)
    /\ Head(strip(ResponseText)) = FENCE
    /\ json_loads(Unwrapped(ResponseText)).ok

(***************************************************************************)
(* The Completion Dispatcher: LLMRateLimiter as built at fireworks          *)
(* main.py:64-66 (rate_limit_seconds = config["rate-limit"], no             *)
(* backoff_exceptions).  Time is counted in seconds.                        *)
(***************************************************************************)
MaxRateLimit == 2   \* largest configured interval
MaxTime == 5        \* the clock stops idling here
MaxCalls == 3       \* most provider calls asked for
MaxDuration == 1    \* longest provider call

\* a gate that never waits
sleep_time_none(last, interval, t) == 0

\* how long a call asked for at t is held back: the rest of the interval that
\* began when the previous call ended, nothing before the first call
sleep_time(last, interval, t) ==
    IF last >= 0 /\ t - last < interval THEN interval - (t - last) ELSE 0

\* a counter that misses the calls that raised
next_call_count_on_success(n, raised) == IF raised THEN n ELSE n + 1

\* the call counter after a provider call has ended, by a completion or by
\* an exception
next_call_count(n, raised) == n + 1

\* one provider call: when it was asked for, when it started, when it ended
CallRecord(asked, started, ended) ==
    [asked |-> asked, started |-> started, ended |-> ended]

LimiterInit ==
    /\ mode = "limiter"
    /\ pc = "idle"
    /\ provider = "fireworks"
    /\ msg_limit = 1
    /\ arg_spec = <<>>
    /\ messages = <<>>
    /\ count = 0
    /\ tool_call_counter = 0
    /\ tool_calls = <<>>
    /\ call_idx = 0
    /\ tool_call_user_message = Message("user", <<>>)
    /\ completion = <<>>
    /\ returned = <<>>
    /\ exception = ""
    /\ oracle_log = <<>>
    /\ llm_calls = <<>>
    /\ next_id = 1
    /\ input_dict = <<>>
    /\ args_norm = <<>>
    /\ attempts = 0
    /\ thoughts = <<>>
    /\ expected_output = <<>>
    /\ vmessages = <<>>
    /\ vstatus = <<>>
    /\ verification_result = "None"
    /\ cases = 0
    /\ verdicts = <<>>
    /\ attempt_id = AttemptId
    /\ oracle_replies = <<>>
    /\ RunIdle
    /\ now = 0
    /\ rate_limit_seconds \in 0..MaxRateLimit
    /\ last_call_time = -1
    /\ total_call_count = 0
    /\ call_log = <<>>
    /\ start_api_calls = 0

\* a second passes while the loops do something else
Elapse ==
    /\ mode = "limiter"
    /\ pc = "idle"
    /\ now < MaxTime
    /\ now' = now + 1
    /\ UNCHANGED <<mode, pc, provider, msg_limit, arg_spec, messages, count,
                   tool_call_counter, tool_calls, call_idx, tool_call_user_message,
                   completion, returned, exception, oracle_log, llm_calls, next_id,
                   input_dict, args_norm, attempts, thoughts, expected_output,
                   vmessages, vstatus, verification_result, cases, verdicts>>
    /\ UNCHANGED <<attempt_id, oracle_replies, runVars, rate_limit_seconds,
                   last_call_time, total_call_count, call_log, start_api_calls>>

\* a loop calls completionfn: the dispatcher sleeps out the rest of the
\* interval, then starts the provider call
CompletionCall ==
    /\ mode = "limiter"
    /\ pc = "idle"
    /\ Len(call_log) < MaxCalls
    /\ LET started == now + sleep_time(last_call_time, rate_limit_seconds, now)
       IN  /\ now' = started
           /\ call_log' = Append(call_log, CallRecord(now, started, -1))
    /\ llm_calls' = Append(llm_calls, LLMCall(messages, <<>>))
    /\ pc' = "calling"
    /\ UNCHANGED <<mode, provider, msg_limit, arg_spec, messages, count,
                   tool_call_counter, tool_calls, call_idx, tool_call_user_message,
                   completion, returned, exception, oracle_log, next_id,
                   input_dict, args_norm, attempts, thoughts, expected_output,
                   vmessages, vstatus, verification_result, cases, verdicts>>
    /\ UNCHANGED <<attempt_id, oracle_replies, runVars, rate_limit_seconds,
                   last_call_time, total_call_count, start_api_calls>>

\* the provider call ends, with a completion or with an exception, which is
\* not retried (backoff_exceptions = []) and reaches the caller
CompletionEnds ==
    /\ mode = "limiter"
    /\ pc = "calling"
    /\ \E d \in 0..MaxDuration, raised \in BOOLEAN :
         /\ now' = now + d
         /\ last_call_time' = now + d
         /\ total_call_count' = next_call_count(total_call_count, raised)
         /\ call_log' = [call_log EXCEPT ![Len(call_log)].ended = now + d]
         /\ exception' = IF raised THEN "ProviderError" ELSE exception
         /\ pc' = IF raised THEN "raised" ELSE "idle"
    /\ UNCHANGED <<mode, provider, msg_limit, arg_spec, messages, count,
                   tool_call_counter, tool_calls, call_idx, tool_call_user_message,
                   completion, returned, oracle_log, llm_calls, next_id,
                   input_dict, args_norm, attempts, thoughts, expected_output,
                   vmessages, vstatus, verification_result, cases, verdicts>>
    /\ UNCHANGED <<attempt_id, oracle_replies, runVars, rate_limit_seconds,
                   start_api_calls>>

\* investigate_and_verify begins an attempt: it reads the counter before the
\* first completion call of the attempt
AttemptBegins ==
    /\ mode = "limiter"
    /\ pc = "idle"
    /\ llm_calls # <<>>
    /\ start_api_calls' = total_call_count
    /\ llm_calls' = <<>>
    /\ UNCHANGED <<mode, pc, provider, msg_limit, arg_spec, messages, count,
                   tool_call_counter, tool_calls, call_idx, tool_call_user_message,
                   completion, returned, exception, oracle_log, next_id,
                   input_dict, args_norm, attempts, thoughts, expected_output,
                   vmessages, vstatus, verification_result, cases, verdicts>>
    /\ UNCHANGED <<attempt_id, oracle_replies, runVars, now, rate_limit_seconds,
                   last_call_time, total_call_count, call_log>>

LimiterNext ==
    \/ Elapse
    \/ AttemptBegins
    \/ CompletionCall
    \/ CompletionEnds

SpecLimiter == LimiterInit /\ [][LimiterNext]_vars

\* the i-th call was asked for before the interval after call i-1 was over
ArrivedSooner(i) ==
    call_log[i].asked < call_log[i - 1].ended + rate_limit_seconds

\* C20: the dispatcher never starts a provider call less than the configured
\* interval after the end of the previous call; a call that arrives sooner
\* blocks until the interval has elapsed, and one that arrives later starts
\* at once.
C20_IntervalBetweenCalls ==
    mode = "limiter" =>
        \A i \in 2..Len(call_log) :
            /\ call_log[i].started >= call_log[i - 1].ended + rate_limit_seconds
            /\ ArrivedSooner(i) =>
                   call_log[i].started = call_log[i - 1].ended + rate_limit_seconds
            /\ ~ArrivedSooner(i) => call_log[i].started = call_log[i].asked

\* a third call that arrived too soon was held back after two earlier calls
C20_Witness ==
    /\ mode = "limiter"
    /\ Len(call_log) = 3
    /\ rate_limit_seconds = 2
    /\ ArrivedSooner(3)
    /\ call_log[3].asked > call_log[2].ended
    /\ call_log[3].started > call_log[3].asked

(***************************************************************************)
(* The Run Orchestrator: run_utils.py (start_run, reset_attempt,            *)
(* save_run_failure, complete_run, run_with_error_handling) driving         *)
(* run_benchmark and investigate_and_verify of sherlockbench_fireworks      *)
(* main.py.  A run is followed over several processes: the one that starts  *)
(* it and those that resume it.  oracle_log and llm_calls hold the          *)
(* run-level requests of the process and the calls of the attempt being     *)
(* processed.  The loops driven are those of sherlockbench_anthropic.       *)
(***************************************************************************)
MaxAttempts == 2    \* most attempts the oracle hands out for a run
MaxProcesses == 3   \* most processes started on a run

\* the two kinds of positional argument: a run UUID, a problem-set id
RUN_ID == "0b5e6a52-7c1d-4f0a-9d3e-2a1b3c4d5e6f"
PROBLEM_SET == "easy3"

\* is_valid_uuid: the argument has the shape of a UUID
is_valid_uuid(arg) == arg = RUN_ID

AttemptIdOf(n) == "attempt-" \o ToString(n)

\* an attempt as the oracle hands it out: attempt-id, arg-spec
Attempt(n) == [attempt_id |-> AttemptIdOf(n), arg_spec |-> <<"integer">>]

\* the attempts of a start-run reply
ServerAttempts(k) == [i \in 1..k |-> Attempt(i)]

attempt_ids(list) == {list[i].attempt_id : i \in 1..Len(list)}

\* a row that does not name the attempt
OutcomeOfNoAttempt(id, result, tool_call_count) ==
    [attempt_id |-> "", result |-> result, tool_call_count |-> tool_call_count]

\* the row q.add_attempt writes for an attempt
Outcome(id, result, tool_call_count) ==
    [attempt_id |-> id, result |-> result, tool_call_count |-> tool_call_count]

EmptyStore ==
    [run |-> FALSE, failure_info |-> <<>>, completed |-> <<>>, result |-> FALSE]

\* q.get_failed_run: <<>> or the failure_info of the run record
get_failed_run(st) == IF st.run THEN st.failure_info ELSE <<>>

\* q.get_completed_attempts: the identifiers of the attempts with an outcome
get_completed_attempts(st) == attempt_ids(st.completed)

\* a snapshot that loses the list of attempts
save_run_failure_without_attempts(error_type, current, all_attempts) ==
    [error_type      |-> error_type,
     error_message   |-> <<"message of", error_type>>,
     traceback       |-> <<"traceback of", error_type>>,
     current_attempt |-> current,
     all_attempts    |-> <<>>]

\* save_run_failure: the failure_info written for the run
save_run_failure(error_type, current, all_attempts) ==
    [error_type      |-> error_type,
     error_message   |-> <<"message of", error_type>>,
     traceback       |-> <<"traceback of", error_type>>,
     current_attempt |-> current,
     all_attempts    |-> all_attempts]

\* a filter that keeps the completed attempts
remaining_attempts_unfiltered(all_attempts, completed_attempts) == all_attempts

\* lines 152-155: the attempts of the snapshot without an outcome, in order
remaining_attempts(all_attempts, completed_attempts) ==
    SelectSeq(all_attempts, LAMBDA a : a.attempt_id \notin completed_attempts)

\* a skip that leaves the failed attempt in
skip_failed_keeping(attempts_, resume, failed_attempt) == attempts_

\* lines 158-159: with skip, the failed attempt is removed
skip_failed(attempts_, resume, failed_attempt) ==
    IF resume = "skip" /\ failed_attempt # <<>>
    THEN SelectSeq(attempts_,
                   LAMBDA a : a.attempt_id # failed_attempt[1].attempt_id)
    ELSE attempts_

\* str.lower() on the letters that occur
lower(text) == [i \in 1..Len(text) |-> IF text[i] = "S" THEN "s" ELSE text[i]]

SUCCESS == <<"s", "u", "c", "c", "e", "s", "s">>

\* replies to developer/reset-attempt: whether the request raised, whether the
\* oracle did reset the attempt, and the text of the response
ResetReplies ==
    {[raised |-> FALSE, reset |-> TRUE,  body |-> <<"S", "u", "c", "c", "e", "s", "s">>],
     [raised |-> FALSE, reset |-> FALSE, body |-> <<"e", "r", "r", "o", "r">>],
     [raised |-> FALSE, reset |-> FALSE,
      body |-> <<"u", "n", "s", "u", "c", "c", "e", "s", "s", "f", "u", "l">>],
     [raised |-> TRUE,  reset |-> FALSE, body |-> <<>>]}

\* reset_attempt: "success" in str(response).lower(), False when post raised
reset_success(reply) == ~reply.raised /\ str_in(SUCCESS, lower(reply.body))

\* a run-level request: its operation, the attempt it names, the reply
RunRequest(op, id, reply) ==
    [op |-> op, attempt_id |-> id, args |-> <<>>, prediction |-> <<>>,
     reply |-> reply]

RunLevelOps == {"start-run", "developer/reset-attempt", "complete-run"}

IsRunLevel(request) == request.op \in RunLevelOps

\* a for loop that stops before the last attempt
for_has_next_but_last(i, list) == i < Len(list)

\* for i, attempt in enumerate(attempts, 1): is there another attempt
for_has_next(i, list) == i <= Len(list)

\* the locals of investigate and of verify
loopVars == <<messages, count, tool_call_counter, tool_calls, call_idx,
              tool_call_user_message, completion, returned, next_id, attempts,
              thoughts, expected_output, vmessages, vstatus,
              verification_result, cases, verdicts>>

\* the locals as they are before investigate is called
LoopsFresh ==
    /\ messages' = InitialMessages
    /\ count' = 0
    /\ tool_call_counter' = 0
    /\ tool_calls' = <<>>
    /\ call_idx' = 0
    /\ tool_call_user_message' = Message("user", <<>>)
    /\ completion' = <<>>
    /\ returned' = <<>>
    /\ next_id' = 1
    /\ attempts' = 0
    /\ thoughts' = <<>>
    /\ expected_output' = <<>>
    /\ vmessages' = <<>>
    /\ vstatus' = <<>>
    /\ verification_result' = "None"
    /\ cases' = 0
    /\ verdicts' = <<>>

RunInit ==
    /\ mode = "run"
    /\ pc = "start_run"
    /\ provider = "anthropic"
    /\ msg_limit = 2
    /\ arg_spec = <<>>
    /\ messages = InitialMessages
    /\ count = 0
    /\ tool_call_counter = 0
    /\ tool_calls = <<>>
    /\ call_idx = 0
    /\ tool_call_user_message = Message("user", <<>>)
    /\ completion = <<>>
    /\ returned = <<>>
    /\ exception = ""
    /\ oracle_log = <<>>
    /\ llm_calls = <<>>
    /\ next_id = 1
    /\ input_dict = <<>>
    /\ args_norm = <<>>
    /\ attempts = 0
    /\ thoughts = <<>>
    /\ expected_output = <<>>
    /\ vmessages = <<>>
    /\ vstatus = <<>>
    /\ verification_result = "None"
    /\ cases = 0
    /\ verdicts = <<>>
    /\ attempt_id = ""
    /\ oracle_replies = <<>>
    /\ argv \in {[arg |-> PROBLEM_SET, resume |-> "None"]}
                \cup {[arg |-> RUN_ID, resume |-> r] : r \in {"None", "skip", "retry"}}
    /\ attempts_list = <<>>
    /\ attempt_idx = 0
    /\ current_attempt = <<>>
    /\ store = EmptyStore
    /\ exit_status = "None"
    /\ processes = 1
    /\ LimiterIdle

\* exit(1): the process ends before any attempt is dispatched
Exit1 ==
    /\ exit_status' = "1"
    /\ pc' = "exited"
    /\ UNCHANGED <<attempts_list, attempt_idx>>

\* start_run returns the attempts to run_with_error_handling
Proceed(list) ==
    /\ attempts_list' = list
    /\ attempt_idx' = 1
    /\ pc' = "dispatch"
    /\ UNCHANGED exit_status

\* lines 98-162: the run is resumed from the failure info of its record
ResumeRun(info) ==
    LET failed_attempt == info.current_attempt
        rebuilt == skip_failed(
                       remaining_attempts(info.all_attempts,
                                          get_completed_attempts(store)),
                       argv.resume, failed_attempt)
    IN  /\ \/ /\ failed_attempt # <<>>
              /\ argv.resume = "retry"
              /\ \E reply \in ResetReplies :
                   /\ oracle_log' = Append(oracle_log,
                          RunRequest("developer/reset-attempt",
                                     failed_attempt[1].attempt_id, reply))
                   /\ IF ~reset_success(reply) \/ info.all_attempts = <<>>
                      THEN Exit1 ELSE Proceed(rebuilt)
           \/ /\ ~(failed_attempt # <<>> /\ argv.resume = "retry")
              /\ UNCHANGED oracle_log
              /\ IF info.all_attempts = <<>> THEN Exit1 ELSE Proceed(rebuilt)
        /\ UNCHANGED store

\* lines 168-191: start-run, then the run record is created
NewRun(is_uuid) ==
    \E k \in 1..MaxAttempts :
        /\ oracle_log' = Append(oracle_log,
               RunRequest("start-run", "", [existing_run_id |-> is_uuid]))
        /\ store' = [store EXCEPT !.run = TRUE]
        /\ Proceed(ServerAttempts(k))

\* start_run
StartRun ==
    /\ mode = "run"
    /\ pc = "start_run"
    /\ LET is_uuid    == is_valid_uuid(argv.arg)
           failed_run == IF is_uuid /\ argv.resume # "None"
                         THEN get_failed_run(store) ELSE <<>>
       IN  IF failed_run # <<>> THEN ResumeRun(failed_run[1]) ELSE NewRun(is_uuid)
    /\ UNCHANGED <<mode, provider, msg_limit, arg_spec, exception, llm_calls,
                   input_dict, args_norm, attempt_id, oracle_replies, argv,
                   current_attempt, processes, loopVars, limiterVars>>

\* run_benchmark's loop takes the next attempt: set_current_attempt, then
\* investigate_and_verify up to the call of investigate
\* a tracker that keeps the first attempt it was given
set_current_attempt_once(attempt) ==
    IF current_attempt = <<>> THEN attempt ELSE current_attempt

\* set_current_attempt(attempt): the value _current_attempt takes, <<>> for None
set_current_attempt(attempt) == attempt

Dispatch ==
    /\ mode = "run"
    /\ pc = "dispatch"
    /\ for_has_next(attempt_idx, attempts_list)
    /\ LET attempt == attempts_list[attempt_idx]
       IN  /\ current_attempt' = set_current_attempt(<<attempt>>)
           /\ attempt_id' = attempt.attempt_id
           /\ arg_spec' = attempt.arg_spec
    /\ LoopsFresh
    /\ llm_calls' = <<>>
    /\ oracle_log' = SelectSeq(oracle_log, IsRunLevel)
    /\ oracle_replies' = <<>>
    /\ pc' = "investigate"
    /\ UNCHANGED <<mode, provider, msg_limit, exception, input_dict, args_norm,
                   argv, attempts_list, attempt_idx, store, exit_status,
                   processes, limiterVars>>

\* investigate has returned: verify is called with its transcript
CallVerify ==
    /\ mode = "run"
    /\ pc = "investigated"
    /\ pc' = "verify"
    /\ UNCHANGED <<mode, provider, msg_limit, arg_spec, exception, oracle_log,
                   llm_calls, input_dict, args_norm, attempt_id, oracle_replies,
                   runVars, loopVars, limiterVars>>

\* verify has returned: q.add_attempt records the outcome, the current attempt
\* is cleared and the loop moves on
RecordAttempt ==
    /\ mode = "run"
    /\ pc = "verified"
    /\ store' = [store EXCEPT !.completed =
                     Append(@, Outcome(attempt_id, verification_result,
                                       returned[1].tool_call_count))]
    /\ current_attempt' = set_current_attempt(<<>>)
    /\ attempt_idx' = attempt_idx + 1
    /\ pc' = "dispatch"
    /\ UNCHANGED <<mode, provider, msg_limit, arg_spec, exception, oracle_log,
                   llm_calls, input_dict, args_norm, attempt_id, oracle_replies,
                   argv, attempts_list, exit_status, processes, loopVars,
                   limiterVars>>

\* the loop is over: run_benchmark returns and complete_run posts complete-run;
\* the request may fail
CompleteRun ==
    /\ mode = "run"
    /\ pc = "dispatch"
    /\ ~for_has_next(attempt_idx, attempts_list)
    /\ \E raised \in BOOLEAN :
         /\ oracle_log' = Append(oracle_log,
                RunRequest("complete-run", "", [raised |-> raised]))
         /\ IF raised
            THEN /\ exception' = "HTTPError"
                 /\ pc' = "raised"
                 /\ UNCHANGED <<store, exit_status>>
            ELSE /\ store' = [store EXCEPT !.result = TRUE]
                 /\ exit_status' = "0"
                 /\ pc' = "exited"
                 /\ UNCHANGED exception
    /\ UNCHANGED <<mode, provider, msg_limit, arg_spec, llm_calls, input_dict,
                   args_norm, attempt_id, oracle_replies, argv, attempts_list,
                   attempt_idx, current_attempt, processes, loopVars,
                   limiterVars>>

\* run_with_error_handling's except block: the snapshot is saved and
\* committed, and the exception is raised again
HandleFailure ==
    /\ mode = "run"
    /\ pc = "raised"
    /\ store' = [store EXCEPT !.failure_info =
                     <<save_run_failure(exception, current_attempt, attempts_list)>>]
    /\ exit_status' = exception
    /\ pc' = "exited"
    /\ UNCHANGED <<mode, provider, msg_limit, arg_spec, exception, oracle_log,
                   llm_calls, input_dict, args_norm, attempt_id, oracle_replies,
                   argv, attempts_list, attempt_idx, current_attempt, processes,
                   loopVars, limiterVars>>

\* the run did not complete: a new process is started on it with one of the
\* two command lines the failed process printed
Restart ==
    /\ mode = "run"
    /\ pc = "exited"
    /\ exit_status # "0"
    /\ processes < MaxProcesses
    /\ \E resume \in {"skip", "retry"} :
         argv' = [arg |-> RUN_ID, resume |-> resume]
    /\ processes' = processes + 1
    /\ pc' = "start_run"
    /\ exit_status' = "None"
    /\ exception' = ""
    /\ current_attempt' = <<>>
    /\ attempts_list' = <<>>
    /\ attempt_idx' = 0
    /\ attempt_id' = ""
    /\ arg_spec' = <<>>
    /\ LoopsFresh
    /\ llm_calls' = <<>>
    /\ oracle_log' = <<>>
    /\ oracle_replies' = <<>>
    /\ UNCHANGED <<mode, provider, msg_limit, input_dict, args_norm, store,
                   limiterVars>>

RunNext ==
    \/ StartRun
    \/ Dispatch
    \/ InvestigateTurn
    \/ HandleToolCall
    \/ RaiseMsgLimit
    \/ CallVerify
    \/ NextVerification
    \/ AnthropicCompletion
    \/ AttemptVerification
    \/ RecordAttempt
    \/ CompleteRun
    \/ HandleFailure
    \/ Restart

SpecRun == RunInit /\ [][RunNext]_vars

(***************************************************************************)
(* Properties of the Run Orchestrator                                      *)
(***************************************************************************)
\* the requests of the log that carry one of the operations for the attempt
RequestsFor(ops, id) ==
    SelectSeq(oracle_log, LAMBDA r : r.op \in ops /\ r.attempt_id = id)

VerificationOps == {"next-verification", "attempt-verification"}

\* verify has been called for the attempt being processed
VerificationStarted ==
    \/ pc \in {"verify", "completion", "submit", "verified"}
    \/ RequestsFor(VerificationOps, attempt_id) # <<>>

\* investigate returned the transcript, whose last message is the assistant
\* message of a turn without tool invocations
ReturnedAfterNoToolTurn ==
    /\ returned = <<[messages |-> messages, tool_call_count |-> tool_call_counter]>>
    /\ Last(messages).role = "assistant"
    /\ SelectSeq(Last(messages).content, IsToolUse) = <<>>
    /\ Len(AllToolUses(messages)) = tool_call_counter

\* the attempt being processed ended with the message-limit failure
MsgLimitFailure == mode = "run" /\ exception = "MsgLimitException"

\* C11: verification for an attempt starts only after the attempt's
\* Investigation Loop has returned because of a turn without tool
\* invocations; when the loop ends with the message-limit failure no
\* next-verification or attempt-verification request is made for the attempt
\* and no outcome is recorded for it.
C11_VerificationOnlyAfterReturn ==
    /\ (mode = "run" /\ VerificationStarted) =>
           /\ ReturnedAfterNoToolTurn
           /\ exception # "MsgLimitException"
    /\ MsgLimitFailure =>
           /\ pc \in {"raised", "exited"}
           /\ returned = <<>>
           /\ RequestsFor(VerificationOps, attempt_id) = <<>>
           /\ attempt_id \notin get_completed_attempts(store)
           /\ current_attempt # <<>>
           /\ current_attempt[1].attempt_id = attempt_id

\* the second attempt ran out of messages after two tool turns, the first one
\* having been verified
C11_Witness ==
    /\ MsgLimitFailure
    /\ pc = "exited"
    /\ tool_call_counter >= 2
    /\ Len(store.completed) >= 1
    /\ attempt_id = AttemptIdOf(2)

\* an exception raised while an attempt is in flight has reached
\* run_with_error_handling
AttemptFailed == mode = "run" /\ pc = "raised" /\ current_attempt # <<>>

CompleteRunRequests ==
    SelectSeq(oracle_log, LAMBDA r : r.op = "complete-run")

Resumed ==
    /\ mode = "run"
    /\ pc \notin {"start_run", "exited"}
    /\ argv.resume # "None"
    /\ store.failure_info # <<>>

\* the attempt the snapshot records as in flight, <<>> when there is none
InFlight == store.failure_info[1].current_attempt

ResetRequests ==
    SelectSeq(oracle_log, LAMBDA r : r.op = "developer/reset-attempt")

AttemptOps == {"test-function", "next-verification", "attempt-verification"}

\* C13: on resume with skip the attempt recorded as in flight in the snapshot
\* is not in the rebuilt list of remaining attempts, is never dispatched by
\* the resumed process, and no reset request is sent to the oracle.
C13_SkipLeavesOutInFlight ==
    /\ (mode = "run" /\ argv.resume = "skip") => ResetRequests = <<>>
    /\ (Resumed /\ argv.resume = "skip" /\ InFlight # <<>>) =>
           /\ InFlight[1].attempt_id \notin attempt_ids(attempts_list)
           /\ current_attempt # InFlight
           /\ attempt_id # InFlight[1].attempt_id
           /\ RequestsFor(AttemptOps, InFlight[1].attempt_id) = <<>>

\* the first attempt is skipped and the second one is being verified
C13_Witness ==
    /\ Resumed
    /\ argv.resume = "skip"
    /\ InFlight = <<Attempt(1)>>
    /\ current_attempt = <<Attempt(2)>>
    /\ pc = "submit"

\* C14: on resume with retry the attempt recorded as in flight is part of the
\* rebuilt list only after the oracle did reset it; if the reset fails (an
\* error response or a raised exception) the process exits with status 1
\* without dispatching an attempt.
C14_RetryOnlyAfterReset ==
    /\ (Resumed /\ argv.resume = "retry" /\ InFlight # <<>>
        /\ InFlight[1].attempt_id \in attempt_ids(attempts_list)) =>
           /\ Len(ResetRequests) = 1
           /\ ResetRequests[1].attempt_id = InFlight[1].attempt_id
           /\ ResetRequests[1].reply.reset
    /\ (mode = "run" /\ ResetRequests # <<>> /\ ~ResetRequests[1].reply.reset) =>
           /\ exit_status = "1"
           /\ pc = "exited"
           /\ attempts_list = <<>>
           /\ current_attempt = <<>>
           /\ llm_calls = <<>>

\* what the code does do: the in-flight attempt is retried once the text of
\* the reset response contains success, and the process exits with status 1
\* when the request raised or the text does not contain it
C14_RetryAfterResponseNamesSuccess ==
    /\ (Resumed /\ argv.resume = "retry" /\ InFlight # <<>>
        /\ InFlight[1].attempt_id \in attempt_ids(attempts_list)) =>
           /\ Len(ResetRequests) = 1
           /\ ResetRequests[1].attempt_id = InFlight[1].attempt_id
           /\ ~ResetRequests[1].reply.raised
           /\ str_in(SUCCESS, lower(ResetRequests[1].reply.body))
    /\ (mode = "run" /\ ResetRequests # <<>>
        /\ (ResetRequests[1].reply.raised
            \/ ~str_in(SUCCESS, lower(ResetRequests[1].reply.body)))) =>
           /\ exit_status = "1"
           /\ pc = "exited"
           /\ attempts_list = <<>>
           /\ current_attempt = <<>>
           /\ llm_calls = <<>>

\* the failed attempt is dispatched again although the oracle did not reset it
C14_Witness ==
    /\ Resumed
    /\ argv.resume = "retry"
    /\ ResetRequests # <<>>
    /\ ~ResetRequests[1].reply.reset
    /\ current_attempt = InFlight
    /\ pc = "investigate"

\* start_run is about to resume the run from the snapshot of its record
Resuming ==
    /\ mode = "run"
    /\ pc = "start_run"
    /\ is_valid_uuid(argv.arg)
    /\ argv.resume # "None"
    /\ store.run
    /\ store.failure_info # <<>>

StartRunRequests == SelectSeq(oracle_log, LAMBDA r : r.op = "start-run")

\* the attempts of the snapshot's list without an outcome, in the list's order
NotYetCompleted ==
    SelectSeq(store.failure_info[1].all_attempts,
              LAMBDA a : \A i \in 1..Len(store.completed) :
                            store.completed[i].attempt_id # a.attempt_id)

\* the same, without the in-flight attempt when the resume mode is skip
NotYetCompletedNorSkipped ==
    SelectSeq(NotYetCompleted,
              LAMBDA a : ~(argv.resume = "skip" /\ InFlight = <<a>>))

\* C15: on resume the rebuilt list of remaining attempts holds no attempt
\* with a recorded outcome and holds the not yet completed attempts of the
\* snapshot's list in their original order; the resume path neither calls
\* start-run nor creates a run record.
C15_RemainingAreNotYetCompleted ==
    [][ (Resuming /\ pc' = "dispatch") =>
           /\ attempts_list' = NotYetCompleted
           /\ attempt_ids(attempts_list') \cap get_completed_attempts(store) = {}
           /\ StartRunRequests' = <<>>
           /\ store' = store ]_vars

\* C15 as the code has it: with skip the in-flight attempt, which is not
\* completed either, is left out of the rebuilt list.
C15_RemainingExceptSkipped ==
    [][ (Resuming /\ pc' = "dispatch") =>
           /\ attempts_list' = NotYetCompletedNorSkipped
           /\ attempt_ids(attempts_list') \cap get_completed_attempts(store) = {}
           /\ StartRunRequests' = <<>>
           /\ store' = store ]_vars

\* a run of two attempts resumed with retry after the first attempt was
\* completed and the second failed: the second alone remains
C15_Witness ==
    /\ Resumed
    /\ pc = "dispatch"
    /\ attempt_idx = 1
    /\ argv.resume = "retry"
    /\ store.failure_info[1].all_attempts = ServerAttempts(2)
    /\ get_completed_attempts(store) = {AttemptIdOf(1)}
    /\ attempts_list = <<Attempt(2)>>

\* every attempt of the list has been dispatched and has its outcome recorded
AllAttemptsFinished ==
    /\ attempt_idx = Len(attempts_list) + 1
    /\ current_attempt = <<>>
    /\ attempt_ids(attempts_list) \subseteq get_completed_attempts(store)
    /\ exception \in {"", "HTTPError"}

\* C16: complete-run is called exactly once by a successful process and only
\* after every attempt of the list has been dispatched and has finished
\* without a fatal error; it is never called while an attempt is pending or
\* in flight.
C16_CompleteRunOnceAtTheEnd ==
    mode = "run" =>
        /\ Len(CompleteRunRequests) <= 1
        /\ CompleteRunRequests # <<>> => AllAttemptsFinished
        /\ exit_status = "0" =>
               /\ Len(CompleteRunRequests) = 1
               /\ ~CompleteRunRequests[1].reply.raised
               /\ store.result
        /\ store.result =>
               \/ exit_status = "0"
               \/ pc = "exited" /\ exit_status # "None"

\* a new run of two attempts completed by its first process
C16_Witness ==
    /\ mode = "run"
    /\ exit_status = "0"
    /\ processes = 1
    /\ Len(attempts_list) = 2
    /\ Len(store.completed) = 2
    /\ Len(CompleteRunRequests) = 1

\* the step made a call to the model or to the oracle for an attempt
AttemptCall ==
    \/ Len(llm_calls') > Len(llm_calls)
    \/ /\ Len(oracle_log') > Len(oracle_log)
       /\ Last(oracle_log').op \in AttemptOps

\* C17: attempts are processed one at a time in list order: for each attempt
\* investigation runs before verification, the outcome of the attempt is
\* recorded after its verification has ended, and no call to the model or to
\* the oracle is made for attempt i+1 before the outcome of attempt i is
\* recorded.
C17_OneAttemptAtATime ==
    [][ mode = "run" =>
          /\ AttemptCall =>
                /\ for_has_next(attempt_idx, attempts_list)
                /\ current_attempt = <<attempts_list[attempt_idx]>>
                /\ attempt_id = attempts_list[attempt_idx].attempt_id
                /\ \A j \in 1..(attempt_idx - 1) :
                       attempts_list[j].attempt_id \in get_completed_attempts(store)
                /\ attempts_list[attempt_idx].attempt_id
                       \notin get_completed_attempts(store)
                /\ (Len(oracle_log') > Len(oracle_log)) =>
                       /\ Last(oracle_log').attempt_id = attempt_id
                       /\ Last(oracle_log').op \in VerificationOps =>
                              ReturnedAfterNoToolTurn
          /\ store'.completed # store.completed =>
                /\ pc = "verified"
                /\ verification_result \in {"True", "False"}
                /\ store'.completed =
                       Append(store.completed,
                              [attempt_id      |-> attempts_list[attempt_idx].attempt_id,
                               result          |-> verification_result,
                               tool_call_count |-> tool_call_counter])
                /\ attempt_idx' = attempt_idx + 1
          /\ (pc' = "investigate" /\ pc = "dispatch") =>
                /\ current_attempt' = <<attempts_list[attempt_idx]>>
                /\ llm_calls' = <<>>
                /\ RequestsFor(AttemptOps, attempt_id') = <<>> ]_vars

\* the second attempt is under verification after a tool call, the outcome of
\* the first one being recorded
C17_Witness ==
    /\ mode = "run"
    /\ processes = 1
    /\ attempt_idx = 2
    /\ pc = "submit"
    /\ current_attempt = <<Attempt(2)>>
    /\ tool_call_counter >= 1
    /\ get_completed_attempts(store) = {AttemptIdOf(1)}

\* the provider calls that have ended, by a completion or by an exception
CallsEnded == {i \in 1..Len(call_log) : call_log[i].ended >= 0}

\* C21: the dispatcher's call counter never decreases and grows by exactly
\* one per provider call, whether the call succeeds or fails; so the counter
\* read after an attempt minus the counter read when the attempt began is the
\* number of model calls made for the attempt.
C21_CounterCountsEveryCall ==
    /\ [](mode = "limiter" =>
             /\ total_call_count = Cardinality(CallsEnded)
             /\ pc # "calling" =>
                    total_call_count - start_api_calls = Len(llm_calls))
    /\ [][ mode = "limiter" =>
             /\ total_call_count' >= total_call_count
             /\ pc = "calling" => total_call_count' = total_call_count + 1
             /\ pc # "calling" => total_call_count' = total_call_count ]_vars

\* the second attempt made two calls after the one call of the first, and
\* its second call raised
C21_Witness ==
    /\ mode = "limiter"
    /\ pc = "raised"
    /\ exception = "ProviderError"
    /\ start_api_calls = 1
    /\ Len(llm_calls) = 2
    /\ total_call_count = 3

\* the blocks of one kind in a message
BlocksOf(msg, type) == SelectSeq(msg.content, LAMBDA b : b.type = type)

BlockIds(blocks) == {blocks[i].id : i \in 1..Len(blocks)}

\* the i-th message carries tool results that answer, one for one and by
\* identifier, the invocations of the assistant message before it
AnswersPreceding(msgs, i) ==
    /\ i > 1
    /\ msgs[i - 1].role = "assistant"
    /\ Len(BlocksOf(msgs[i], "tool_result")) = Len(BlocksOf(msgs[i - 1], "tool_use"))
    /\ BlockIds(BlocksOf(msgs[i], "tool_result"))
          = BlockIds(BlocksOf(msgs[i - 1], "tool_use"))

\* the i-th message, an assistant message with invocations, is followed by
\* its tool-result message
IsAnswered(msgs, i) ==
    /\ i < Len(msgs)
    /\ msgs[i + 1].role = "user"
    /\ BlocksOf(msgs[i + 1], "tool_result") # <<>>

\* the first n messages of the transcript are matched
Matched(msgs, n) ==
    \A i \in 1..n :
        /\ (msgs[i].role = "user" /\ BlocksOf(msgs[i], "tool_result") # <<>>)
              => AnswersPreceding(msgs, i)
        /\ (msgs[i].role = "assistant" /\ BlocksOf(msgs[i], "tool_use") # <<>>)
              => IsAnswered(msgs, i)

\* C22: in every state of the investigation transcript each user message
\* carrying tool results holds as many tool-result blocks as the assistant
\* message before it holds tool invocations, with the same set of
\* identifiers, and no assistant message with tool invocations is in the
\* transcript without its tool-result message.
C22_TranscriptAlwaysMatched ==
    mode = "investigate" => Matched(messages, Len(messages))

\* C22 as the code has it: the transcript is matched whenever it is sent to
\* the model, returned or abandoned by the raise; while the invocations of a
\* turn are being handled the assistant message of the turn is the last
\* message, not yet answered, and all before it is matched.
C22_TranscriptMatchedBetweenTurns ==
    mode = "investigate" =>
        /\ pc # "tool_calls" => Matched(messages, Len(messages))
        /\ pc = "tool_calls" =>
              /\ Matched(messages, Len(messages) - 1)
              /\ Last(messages).role = "assistant"
              /\ BlocksOf(Last(messages), "tool_use") = tool_calls
              /\ ~IsAnswered(messages, Len(messages))
        /\ \A i \in 1..Len(llm_calls) :
              Matched(llm_calls[i].messages, Len(llm_calls[i].messages))
        /\ returned # <<>> =>
              Matched(returned[1].messages, Len(returned[1].messages))

\* a turn with two invocations has been answered by a message of two results
C22_Witness ==
    /\ mode = "investigate"
    /\ pc = "investigate"
    /\ Len(messages) = 3
    /\ Len(BlocksOf(messages[2], "tool_use")) = 2
    /\ Len(BlocksOf(messages[3], "tool_result")) = 2
    /\ AnswersPreceding(messages, 3)

\* run_benchmark is between set_current_attempt(attempt) and
\* set_current_attempt(None): investigate_and_verify is running
InAttempt ==
    /\ mode = "run"
    /\ pc \notin {"start_run", "dispatch", "raised", "exited"}

\* C23: the process-wide current attempt is attempt i from the dispatch of
\* attempt i until attempt i completes, is null before the first dispatch,
\* between attempts and after the last attempt, and when the top-level
\* failure handler reads it, it is the attempt that was in flight, or null
\* if the failure happened outside attempt processing.
C23_CurrentAttemptLifecycle ==
    /\ [](mode = "run" =>
             /\ InAttempt =>
                    /\ for_has_next(attempt_idx, attempts_list)
                    /\ current_attempt = <<attempts_list[attempt_idx]>>
             /\ pc \in {"start_run", "dispatch"} => current_attempt = <<>>
             /\ exit_status = "0" => current_attempt = <<>>)
    /\ [][ mode = "run" =>
             /\ (InAttempt /\ pc' = "raised") =>
                    current_attempt' = <<attempts_list[attempt_idx]>>
             /\ (~InAttempt /\ pc # "raised" /\ pc' = "raised") =>
                    current_attempt' = <<>>
             /\ (pc = "raised" /\ pc' = "exited") =>
                    /\ current_attempt' = current_attempt
                    /\ store'.failure_info # <<>>
                    /\ store'.failure_info[1].current_attempt = current_attempt
             /\ (current_attempt' # current_attempt /\ pc # "exited") =>
                    \/ /\ pc = "dispatch"
                       /\ current_attempt = <<>>
                       /\ current_attempt' = <<attempts_list[attempt_idx]>>
                    \/ /\ pc = "verified"
                       /\ current_attempt' = <<>>
                       /\ attempt_idx' = attempt_idx + 1 ]_vars

\* the handler has read the second attempt, which was in flight when the
\* message limit was reached, the first one having completed
C23_Witness ==
    /\ mode = "run"
    /\ pc = "exited"
    /\ processes = 1
    /\ exception = "MsgLimitException"
    /\ attempt_idx = 2
    /\ Len(store.completed) = 1
    /\ store.failure_info # <<>>
    /\ store.failure_info[1].current_attempt = <<Attempt(2)>>

\* the handler has read null: complete-run failed after the last attempt
C23_WitnessOutsideAttempt ==
    /\ mode = "run"
    /\ pc = "exited"
    /\ exception = "HTTPError"
    /\ attempt_idx = Len(attempts_list) + 1
    /\ store.failure_info # <<>>
    /\ store.failure_info[1].current_attempt = <<>>

(***************************************************************************)
(* The Response Normalizer on its own: parse_completion applied to every   *)
(* short sequence of content elements, kinds repeated and mixed.           *)
(***************************************************************************)
MaxContent == 3   \* most content elements in a completion

\* two elements of every kind parse_completion looks for, and one of a kind
\* it does not know
ContentElements ==
    {ThinkingBlock, Block("thinking", 0, <<>>, <<"more reasoning">>),
     RedactedThinkingBlock, Block("redacted_thinking", 0, <<>>, <<"opaque too">>),
     TextBlock(<<"hello">>), TextBlock(<<"again">>),
     ToolUseBlock(1, <<<<97, 5>>>>), ToolUseBlock(2, <<<<97, 3>>>>),
     OtherBlock}

NormalizeInit ==
    /\ mode = "normalize"
    /\ pc = "completion"
    /\ provider = "anthropic"
    /\ msg_limit = 1
    /\ arg_spec = <<>>
    /\ messages = <<>>
    /\ count = 0
    /\ tool_call_counter = 0
    /\ tool_calls = <<>>
    /\ call_idx = 0
    /\ tool_call_user_message = Message("user", <<>>)
    /\ completion \in SeqsUpTo(ContentElements, MaxContent)
    /\ returned = <<>>
    /\ exception = ""
    /\ oracle_log = <<>>
    /\ llm_calls = <<>>
    /\ next_id = 1
    /\ input_dict = <<>>
    /\ args_norm = <<>>
    /\ attempts = 0
    /\ thoughts = <<>>
    /\ expected_output = <<>>
    /\ vmessages = <<>>
    /\ vstatus = <<>>
    /\ verification_result = "None"
    /\ cases = 0
    /\ verdicts = <<>>
    /\ attempt_id = AttemptId
    /\ oracle_replies = <<>>
    /\ RunIdle
    /\ LimiterIdle

\* investigate.py:79 for the completion received
NormalizeCompletion ==
    /\ mode = "normalize"
    /\ pc = "completion"
    /\ returned' = <<parse_completion(completion)>>
    /\ pc' = "normalized"
    /\ UNCHANGED <<mode, provider, msg_limit, arg_spec, messages, count,
                   tool_call_counter, tool_calls, call_idx, tool_call_user_message,
                   completion, exception, oracle_log, llm_calls, next_id,
                   input_dict, args_norm, attempts, thoughts, expected_output,
                   vmessages, vstatus, verification_result, cases, verdicts>>
    /\ UNCHANGED <<attempt_id, oracle_replies, runVars, limiterVars>>

NormalizeNext == NormalizeCompletion

SpecNormalize == NormalizeInit /\ [][NormalizeNext]_vars

\* the positions of the elements of a kind
PositionsOf(content, type) == {i \in 1..Len(content) : content[i].type = type}

\* what is expected for a kind of which the first element counts: nothing,
\* or the element at the position no other of the kind precedes
IsFirstOf(found, content, type) ==
    IF PositionsOf(content, type) = {}
    THEN found = <<>>
    ELSE \E i \in PositionsOf(content, type) :
            /\ \A j \in 1..(i - 1) : content[j].type # type
            /\ found = <<content[i]>>

\* the tool invocations of a content, gathered from left to right
RECURSIVE ToolsInOrder(_)
ToolsInOrder(content) ==
    IF content = <<>> THEN <<>>
    ELSE (IF Head(content).type = "tool_use" THEN <<Head(content)>> ELSE <<>>)
         \o ToolsInOrder(Tail(content))

KnownKinds == {"thinking", "redacted_thinking", "text", "tool_use"}

\* C24: parse_completion returns, for every sequence of content elements,
\* the first reasoning block or none, the first redacted-reasoning block or
\* none, the text of the first text block or none, and all tool invocations
\* in their original order; elements of any other kind are ignored and
\* never cause an error.
C24_FirstOfEachKindAndAllTools ==
    /\ [](mode = "normalize" /\ pc = "normalized" =>
             LET r == returned[1]
             IN  /\ IsFirstOf(r.thinking, completion, "thinking")
                 /\ IsFirstOf(r.redacted_thinking, completion, "redacted_thinking")
                 /\ IF PositionsOf(completion, "text") = {}
                    THEN r.text = <<>>
                    ELSE \E i \in PositionsOf(completion, "text") :
                            /\ \A j \in 1..(i - 1) : completion[j].type # "text"
                            /\ r.text = <<completion[i].text>>
                 /\ r.tool = ToolsInOrder(completion)
                 /\ r = parse_completion(
                            SelectSeq(completion, LAMBDA b : b.type \in KnownKinds))
                 /\ exception = "")
    /\ [][ (mode = "normalize" /\ pc = "completion") =>
              /\ pc' = "normalized"
              /\ returned' # <<>> ]_vars

\* a content with an unknown element first and two texts: the text of the
\* first text block is returned, the unknown element leaves no trace
C24_Witness ==
    /\ mode = "normalize"
    /\ pc = "normalized"
    /\ completion = <<OtherBlock, TextBlock(<<"again">>), TextBlock(<<"hello">>)>>
    /\ returned[1].text = <<<<"again">>>>
    /\ returned[1].tool = <<>>
    /\ returned[1].thinking = <<>>

\* the predictions submitted to the oracle
Predictions ==
    SelectSeq(oracle_log, LAMBDA r : r.op = "attempt-verification")

\* verify ended because the oracle had no further case to hand out
StoppedForNoCase ==
    /\ oracle_log # <<>>
    /\ Last(oracle_log).op = "next-verification"
    /\ Len(Predictions) = cases

\* verify ended because the oracle answered the last prediction with done
StoppedForDone ==
    /\ oracle_log # <<>>
    /\ Last(oracle_log).op = "attempt-verification"
    /\ Len(Predictions) = cases
    /\ verdicts # <<>>
    /\ Last(verdicts) = DONE

\* C25: in every provider's loop verify returns True only when the loop
\* stopped because the oracle returned the verdict done or reported that
\* there is no further verification case; it never returns True after a
\* model call for a case failed and no prediction was submitted for it.
C25_TrueOnlyAfterDoneOrNoCase ==
    (mode = "verify" /\ verification_result = "True") =>
        StoppedForNoCase \/ StoppedForDone

\* C25 where the model call cannot fail that way and the verdicts are the
\* three words of the protocol
C25_TrueOnlyAfterDoneOrNoCaseElsewhere ==
    (/\ mode = "verify"
     /\ verification_result = "True"
     /\ provider # "openai"
     /\ \A i \in 1..Len(verdicts) : verdicts[i] \in {WRONG, DONE, CORRECT}) =>
        StoppedForNoCase \/ StoppedForDone

\* openai: the model call for the second case failed for length, no
\* prediction was submitted for it, and verify returned True
C25_Witness ==
    /\ mode = "verify"
    /\ provider = "openai"
    /\ verification_result = "True"
    /\ cases = 2
    /\ Len(Predictions) = 1
    /\ verdicts = <<CORRECT>>
    /\ Last(llm_calls).content = <<>>

\* the step asked the oracle to reset the in-flight attempt and the attempt
\* was not reset
ResetFailedNow ==
    /\ Len(ResetRequests') > Len(ResetRequests)
    /\ ~Last(oracle_log').reply.reset

\* start_run gave up for want of the list of attempts in the failure info
NoListOfAttempts ==
    /\ pc = "start_run"
    /\ pc' = "exited"
    /\ exit_status' = "1"
    /\ store.failure_info[1].all_attempts = <<>>

\* C26: after any sequence of failures and resumes of one run every snapshot
\* persisted by the top-level handler is sufficient to resume: a later start
\* with the run's UUID and skip, or retry with a successful reset, reaches
\* per-attempt dispatch or run completion and never exits for want of the
\* list of attempts, also when the failure happened after all remaining
\* attempts had completed.
C26_SnapshotSufficesToResume ==
    [][ (Resuming /\ ~ResetFailedNow) =>
           /\ pc' = "dispatch"
           /\ ~NoListOfAttempts ]_vars

\* C26 for the snapshots of processes that had an attempt to process
C26_SnapshotWithAttemptsSuffices ==
    [][ (Resuming /\ ~ResetFailedNow
            /\ store.failure_info[1].all_attempts # <<>>) =>
           /\ pc' = "dispatch"
           /\ ~NoListOfAttempts ]_vars

\* the third process gave up: the second one, resumed with nothing left to
\* process, had failed in complete-run and saved an empty list of attempts
C26_Witness ==
    /\ mode = "run"
    /\ processes = 3
    /\ pc = "exited"
    /\ exit_status = "1"
    /\ store.failure_info # <<>>
    /\ store.failure_info[1].error_type = "HTTPError"
    /\ store.failure_info[1].all_attempts = <<>>
    /\ store.failure_info[1].current_attempt = <<>>
    /\ ResetRequests = <<>>

\* the messages a verification request carries before its last one
Context(call) == SubSeq(call.messages, 1, Len(call.messages) - 1)

\* the i-th model call of verify ends with the verification message of one
\* case handed out so far, the case in hand when its prediction is about to
\* be submitted
EndsWithItsCase(i) ==
    /\ llm_calls[i].messages # <<>>
    /\ \E k \in 1..cases : Last(llm_calls[i].messages) = VerificationMessage(k)
    /\ (i = Len(llm_calls) /\ pc = "submit") =>
           Last(llm_calls[i].messages) = VerificationMessage(cases)

\* the transcript verify was given is the one investigate returned, untouched
TranscriptUntouched ==
    /\ returned # <<>>
    /\ messages = returned[1].messages

\* C27: the Verification Loop leaves the investigation transcript unchanged,
\* and the request built for each case consists only of the final message of
\* the prior transcript plus that case's verification message, so it never
\* contains the prompt, response or prediction of an earlier case.
C27_RequestIsFinalMessageAndCase ==
    /\ [](mode = "verify" =>
             /\ TranscriptUntouched
             /\ \A i \in 1..Len(llm_calls) :
                    /\ EndsWithItsCase(i)
                    /\ Context(llm_calls[i]) = <<Last(messages)>>)
    /\ [][mode = "verify" => messages' = messages]_vars

\* C27 as the code has it: the context of a request is the final message of
\* the transcript with anthropic and the whole transcript with google and
\* openai; in both cases nothing of an earlier case is in the request.
C27_RequestIsContextAndCase ==
    /\ [](mode = "verify" =>
             /\ TranscriptUntouched
             /\ \A i \in 1..Len(llm_calls) :
                    /\ EndsWithItsCase(i)
                    /\ provider = "anthropic" =>
                           Context(llm_calls[i]) = <<Last(messages)>>
                    /\ provider # "anthropic" =>
                           Context(llm_calls[i]) = messages)
    /\ [][mode = "verify" => messages' = messages]_vars

\* anthropic: the request of the second case, made after a first case that
\* took two model calls and was answered correct
C27_Witness ==
    /\ mode = "verify"
    /\ provider = "anthropic"
    /\ cases = 2
    /\ verdicts = <<CORRECT>>
    /\ Len(llm_calls) = 3
    /\ llm_calls[3].messages = <<Last(messages), VerificationMessage(2)>>
    /\ Len(messages) = 2

====
